---- MODULE Spec2Model ----
(***************************************************************************)
(* Registry / resolution framework of py-cad (src/helpers/models.py):      *)
(* NormalizedDict, InheritanceMixin.get_parent_items, BuilderABC and       *)
(* AssemblerABC, as state machines over class definitions and instances.   *)
(***************************************************************************)
EXTENDS Integers, Sequences, FiniteSets, TLC

VARIABLES
    builders,     \* defined BuilderABC subclasses, in definition order
    assemblers,   \* defined AssemblerABC subclasses, in definition order
    lastDef,      \* outcome of the last class statement
    binst,        \* builder instances: class and reference to _solid_cache
    ainst,        \* assembler instances: class and the builder instance owned
    heap,         \* NormalizedDict objects by address (the solid caches)
    nextSolid,    \* number of solids built so far (object identities)
    lastCall,     \* the last instance call and what it returned or raised
    hist,         \* per builder instance: the solids cached calls returned since
                  \* the last clear_cache (with their part type) and before it
    rec,          \* a BasicDimensionData object: None, or Some(its __dict__)
    dimset,       \* a DimensionData object: None, or Some(its part-type records)
    nd            \* a NormalizedDict object: its data

vars == <<builders, assemblers, lastDef, binst, ainst, heap, nextSolid, lastCall, hist,
          rec, dimset, nd>>

(***************************************************************************)
(* Bounds                                                                  *)
(***************************************************************************)
MaxBuilders == 3
MaxAssemblers == 2
MaxMetaClasses == 4
MaxInstances == 2
MaxSolids == 2

(***************************************************************************)
(* Strings are sequences of characters, so that strip() and lower() are    *)
(* computed.                                                               *)
(***************************************************************************)
Chars == {"a", "A", "b", "B", "c", "C", "p", "P", "q", "Q", " ", "_"}

IsStr(key) == \A i \in DOMAIN key : key[i] \in Chars

LowerChar(c) ==
    CASE c = "A" -> "a"
      [] c = "B" -> "b"
      [] c = "C" -> "c"
      [] c = "P" -> "p"
      [] c = "Q" -> "q"
      [] OTHER -> c

Lower(s) == [i \in DOMAIN s |-> LowerChar(s[i])]

RECURSIVE LStrip(_)
LStrip(s) == IF s # <<>> /\ Head(s) = " " THEN LStrip(Tail(s)) ELSE s

RECURSIVE RStrip(_)
RStrip(s) ==
    IF s # <<>> /\ s[Len(s)] = " " THEN RStrip(SubSeq(s, 1, Len(s) - 1)) ELSE s

Strip(s) == RStrip(LStrip(s))

\* Keys that are not str are a type tag followed by the value's characters:
\* bytes have strip() and lower() of their own, an int or None has neither,
\* and a list has neither and cannot be hashed.
IsBytes(key) == key # <<>> /\ Head(key) = "bytes" /\ IsStr(Tail(key))

\* key.strip().lower() raises no AttributeError
HasStripLower(key) == IsStr(key) \/ IsBytes(key)

\* hash(key) raises no TypeError
Hashable(key) == key = <<>> \/ Head(key) # "list"

\* NormalizedDict.normalize_item(key, raise_error=False)
normalize_item(key) ==
    IF IsStr(key) THEN Lower(Strip(key))
    ELSE IF IsBytes(key) THEN <<"bytes">> \o Lower(Strip(Tail(key)))
    ELSE key

(***************************************************************************)
(* NormalizedDict: a function whose domain is the set of stored keys.      *)
(***************************************************************************)
EmptyMap == <<>>

MapMerge(a, b) ==
    [k \in (DOMAIN a) \cup (DOMAIN b) |-> IF k \in DOMAIN b THEN b[k] ELSE a[k]]

Values(m) == {m[k] : k \in DOMAIN m}

\* NormalizedDict.__setitem__ on a string key
ND_setitem(d, key, value) ==
    MapMerge(d, [k \in {normalize_item(key)} |-> value])

\* mutant: membership is tested under the key as spelled
ND_contains_Raw(d, key) == key \in DOMAIN d

\* NormalizedDict.__contains__
ND_contains(d, key) == normalize_item(key) \in DOMAIN d

\* NormalizedDict.__getitem__ (defined where ND_contains holds)
ND_getitem(d, key) == d[normalize_item(key)]

\* NormalizedDict(mapping): UserDict.__init__ stores the items one by one, in
\* the mapping's insertion order; pairs is that ordered list of <<key, value>>.
RECURSIVE ND_init(_)
ND_init(pairs) ==
    IF pairs = <<>> THEN EmptyMap
    ELSE LET n == Len(pairs)
         IN  ND_setitem(ND_init(SubSeq(pairs, 1, n - 1)), pairs[n][1], pairs[n][2])

\* a | b of two NormalizedDicts: UserDict.__or__, the right operand wins
ND_or(a, b) ==
    LET data == MapMerge(a, b)
    IN  [k \in {normalize_item(x) : x \in DOMAIN data} |->
            data[CHOOSE x \in DOMAIN data : normalize_item(x) = k]]

(***************************************************************************)
(* Class hierarchies.  Class 0 is the framework base (BuilderABC or        *)
(* AssemblerABC); user classes are numbered from 1 in definition order.    *)
(* __mro__ is Python's C3 linearisation.                                   *)
(***************************************************************************)
None == <<>>
Some(x) == <<x>>

SeqToSet(s) == {s[i] : i \in DOMAIN s}

\* candidate base lists of a class statement when classes 1..n exist: one
\* base, or two distinct bases in either order
BaseLists(n) ==
    {<<x>> : x \in 0..n} \cup {p \in (0..n) \X (0..n) : p[1] # p[2]}

MroFail == <<-1>>

RemoveAll(s, x) == SelectSeq(s, LAMBDA y : y # x)

RECURSIVE C3Merge(_)
C3Merge(seqs) ==
    LET live == SelectSeq(seqs, LAMBDA s : s # <<>>)
    IN  IF live = <<>> THEN <<>>
        ELSE LET good(i) ==
                     \A j \in DOMAIN live : Head(live[i]) \notin SeqToSet(Tail(live[j]))
                 cands == {i \in DOMAIN live : good(i)}
             IN  IF cands = {} THEN MroFail
                 ELSE LET i == CHOOSE c \in cands : \A d \in cands : c <= d
                          h == Head(live[i])
                          rest == C3Merge([j \in DOMAIN live |-> RemoveAll(live[j], h)])
                      IN  IF rest = MroFail THEN MroFail ELSE <<h>> \o rest

\* __mro__ of a new class n with the given bases; classes is the sequence of
\* already defined classes (records with a field mro)
MroOfClass(classes, c) == IF c = 0 THEN <<0>> ELSE classes[c].mro

Mro(classes, n, bases) ==
    IF Cardinality(SeqToSet(bases)) # Len(bases) THEN MroFail
    ELSE LET tail == C3Merge([i \in 1..Len(bases) |-> MroOfClass(classes, bases[i])]
                             \o <<bases>>)
         IN  IF tail = MroFail THEN MroFail ELSE <<n>> \o tail

\* InheritanceMixin.get_parent_items: items[i] is getattr(base, attr_name, None)
\* of the i-th class of cls.__mro__[1:], None or Some(map)
RECURSIVE FoldParentItems(_, _)
FoldParentItems(items, parent_items) ==
    IF items = <<>> THEN parent_items
    ELSE LET older_parent_items == Head(items)
         IN  IF older_parent_items = None
             THEN FoldParentItems(Tail(items), parent_items)
             ELSE IF parent_items = None
             THEN FoldParentItems(Tail(items), older_parent_items)
             ELSE FoldParentItems(Tail(items),
                                  Some(ND_or(older_parent_items[1], parent_items[1])))

\* mutant: the older class of a collision wins
RECURSIVE FoldOlderWins(_, _)
FoldOlderWins(items, parent_items) ==
    IF items = <<>> THEN parent_items
    ELSE LET older_parent_items == Head(items)
         IN  IF older_parent_items = None
             THEN FoldOlderWins(Tail(items), parent_items)
             ELSE IF parent_items = None
             THEN FoldOlderWins(Tail(items), older_parent_items)
             ELSE FoldOlderWins(Tail(items),
                                Some(ND_or(parent_items[1], older_parent_items[1])))

get_parent_items_OlderWins(items) == FoldOlderWins(items, None)

get_parent_items(items) == FoldParentItems(items, None)

\* "x or NormalizedDict()": None and the empty map are both falsy
OrEmpty(x) == IF x = None THEN EmptyMap ELSE x[1]

(***************************************************************************)
(* BuilderABC.__init_subclass__                                            *)
(***************************************************************************)
\* getattr(base, "_builder_map", None) for every base of mro[1:]
BuilderMapAttrs(classes, mro) ==
    [i \in 1..(Len(mro) - 1) |->
        IF mro[i + 1] = 0 THEN None ELSE Some(classes[mro[i + 1]].builder_map)]

\* the class body's registered methods, in __dict__ order: tags[i] is the
\* part type given to BuilderABC.register for the i-th method; the method
\* itself is the pair <<class, i>>
ChildBuilderMap(n, tags) ==
    ND_init([i \in 1..Len(tags) |-> <<tags[i], <<n, i>> >>])

\* mutant: the inherited registry wins a key collision
BuilderInitSubclass_ParentWins(classes, n, mro, tags) ==
    LET parent_builder_map == OrEmpty(get_parent_items(BuilderMapAttrs(classes, mro)))
        child_builder_map == ChildBuilderMap(n, tags)
        builder_map == ND_or(child_builder_map, parent_builder_map)
    IN  [bases |-> <<>>, mro |-> mro, tags |-> tags,
         builder_map |-> builder_map,
         resolved_part_types |-> DOMAIN builder_map]

BuilderInitSubclass(classes, n, mro, tags) ==
    LET parent_builder_map == OrEmpty(get_parent_items(BuilderMapAttrs(classes, mro)))
        child_builder_map == ChildBuilderMap(n, tags)
        builder_map == ND_or(parent_builder_map, child_builder_map)
    IN  [bases |-> <<>>, mro |-> mro, tags |-> tags,
         builder_map |-> builder_map,
         resolved_part_types |-> DOMAIN builder_map]

\* candidate class bodies: the part types given to register, in order
TagLists ==
    { <<>>,
      << <<"a">> >>,
      << <<"b">> >>,
      << <<" ", "A">>, <<"c">> >>,
      << <<"B", " ">>, <<"b">> >> }

NoDef == [kind |-> "none", what |-> "none"]

DefineBuilder(bases, tags) ==
    /\ Len(builders) < MaxBuilders
    /\ LET n == Len(builders) + 1
           mro == Mro(builders, n, bases)
       IN  IF mro = MroFail
           THEN /\ lastDef' = [kind |-> "TypeError", what |-> "builder"]
                /\ UNCHANGED builders
           ELSE /\ builders' = Append(builders,
                        [BuilderInitSubclass(builders, n, mro, tags) EXCEPT !.bases = bases])
                /\ lastDef' = [kind |-> "ok", what |-> "builder"]
    /\ UNCHANGED <<assemblers, binst, ainst, heap, nextSolid, lastCall, hist, rec, dimset, nd>>

NoCall == [op |-> "none"]

InitRest ==
    /\ lastDef = NoDef
    /\ binst = <<>>
    /\ ainst = <<>>
    /\ heap = <<>>
    /\ nextSolid = 0
    /\ lastCall = NoCall
    /\ hist = <<>>
    /\ rec = <<>>
    /\ dimset = <<>>
    /\ nd = <<>>

InitBuilders ==
    /\ builders = <<>>
    /\ assemblers = <<>>
    /\ InitRest

NextBuilders ==
    \E bases \in BaseLists(Len(builders)), tags \in TagLists : DefineBuilder(bases, tags)

SpecBuilders == InitBuilders /\ [][NextBuilders]_vars

\* the builder classes that exist after the class statements defs, each a
\* pair <<bases, tags>>, have run in order
RECURSIVE DefinedBuilders(_)
DefinedBuilders(defs) ==
    IF defs = <<>> THEN <<>>
    ELSE LET prev == DefinedBuilders(SubSeq(defs, 1, Len(defs) - 1))
             n == Len(prev) + 1
             d == defs[Len(defs)]
         IN  Append(prev, [BuilderInitSubclass(prev, n, Mro(prev, n, d[1]), d[2])
                               EXCEPT !.bases = d[1]])

\* builders of the assembler specifications: Base tags "a" and Mid(Base)
\* tags "B "
FixedBuilders ==
    DefinedBuilders(<< << <<0>>, << <<"a">> >> >>,
                       << <<1>>, << <<"B", " ">> >> >> >>)

(***************************************************************************)
(* AssemblerABC.__init_subclass__                                          *)
(***************************************************************************)
\* AssemblerABC.normalize_values followed by NormalizedDict(...): pairs is the
\* class body's part_map in insertion order
NormalizedPartMap(pairs) ==
    ND_init([i \in DOMAIN pairs |-> <<pairs[i][1], normalize_item(pairs[i][2])>>])

\* getattr(base, "_resolved_part_map", None) for every base of mro[1:]
PartMapAttrs(classes, mro) ==
    [i \in 1..(Len(mro) - 1) |->
        IF mro[i + 1] = 0 THEN None ELSE Some(classes[mro[i + 1]].resolved_part_map)]

\* AssemblerABC._resolve_part_map; part_map is the normalized own map, empty
\* when the class body declares none
_resolve_part_map(classes, mro, bc, part_map) ==
    LET parent_part_map == OrEmpty(get_parent_items(PartMapAttrs(classes, mro)))
    IN  IF DOMAIN part_map # {}
        THEN ND_or(parent_part_map, part_map)
        ELSE LET mapped_part_types == Values(parent_part_map)
                 part_types == builders[bc].resolved_part_types
                 new_mappings ==
                     [pt \in {normalize_item(x) : x \in part_types \ mapped_part_types}
                         |-> CHOOSE x \in part_types \ mapped_part_types :
                                 normalize_item(x) = pt]
             IN  ND_or(new_mappings, parent_part_map)

\* mutant: only the class's own part_map values are validated
InvalidValues_OwnOnly(resolved, own, bc) ==
    Values(own) \ builders[bc].resolved_part_types

\* AssemblerABC._validate_resolved_part_map: the invalid values (own is the
\* normalized own map, which the code does not read here)
InvalidValues(resolved, own, bc) ==
    Values(resolved) \ builders[bc].resolved_part_types

\* AssemblerABC._setup_attributes
_setup_attributes == {"part_map", "BuilderClass"}

\* the setup attributes a class body assigns
BodyNames(hasBC, pm) ==
    (IF hasBC THEN {"BuilderClass"} ELSE {}) \cup (IF pm # None THEN {"part_map"} ELSE {})

\* mutant: the setup attributes stay on the class
DeleteSetupAttributes_Keep(dict) == dict

\* "for attr in cls._setup_attributes: if attr in cls.__dict__: delattr(cls, attr)";
\* dict is the set of setup attributes in cls.__dict__
DeleteSetupAttributes(dict) == dict \ _setup_attributes

\* the classes of mro[1:] that have attr in their __dict__
Holders(classes, mro, attr) ==
    {i \in 2..Len(mro) : mro[i] # 0 /\ attr \in classes[mro[i]].dict}

\* hasattr(cls, attr) inside __init_subclass__, for a setup attribute: body
\* is what the class body assigns
HasAttr(classes, mro, body, attr) ==
    attr \in body \/ Holders(classes, mro, attr) # {}

\* cls.BuilderClass inside __init_subclass__: the body's, else the one of the
\* first class of the MRO that has it
GetBuilderClass(classes, mro, hasBC, bc) ==
    IF hasBC THEN bc
    ELSE classes[mro[CHOOSE i \in Holders(classes, mro, "BuilderClass") :
                        \A j \in Holders(classes, mro, "BuilderClass") : i <= j]].BuilderClass

\* The class statement of assembler n.  hasBC: the body assigns BuilderClass
\* (bc); pm: None, or Some(part_map pairs) when the body assigns part_map;
\* md: None, or Some(keys) when the body overrides get_metadata_map.  In the
\* class record BuilderClass is cls._BuilderClass, part_map and body are what
\* the class body assigned, and dict is what is left of it in cls.__dict__.
AssemblerInitSubclass(classes, n, bases, hasBC, bc, pm, md) ==
    LET mro == Mro(classes, n, bases)
        body == BodyNames(hasBC, pm)
    IN  IF mro = MroFail THEN [kind |-> "TypeError", what |-> "assembler", body |-> body, bases |-> bases]
        ELSE IF ~HasAttr(classes, mro, body, "BuilderClass")
        THEN [kind |-> "TypeError", what |-> "assembler", body |-> body, bases |-> bases]
        ELSE LET _BuilderClass == GetBuilderClass(classes, mro, hasBC, bc)
                 part_map == NormalizedPartMap(OrEmpty(pm))
                 resolved == _resolve_part_map(classes, mro, _BuilderClass, part_map)
                 invalid_values == InvalidValues(resolved, part_map, _BuilderClass)
                 attempt == [bases |-> bases, mro |-> mro,
                             BuilderClass |-> _BuilderClass,
                             part_map |-> pm, resolved_part_map |-> resolved,
                             meta |-> md, body |-> body,
                             dict |-> DeleteSetupAttributes(body)]
             IN  IF invalid_values # {}
                 THEN [kind |-> "ValueError", what |-> "assembler",
                       invalid |-> invalid_values, cls |-> attempt, body |-> body,
                       bases |-> bases]
                 ELSE [kind |-> "ok", what |-> "assembler", cls |-> attempt,
                       body |-> body, bases |-> bases]

DefineAssembler(bases, hasBC, bc, pm, md) ==
    /\ LET n == Len(assemblers) + 1
           r == AssemblerInitSubclass(assemblers, n, bases, hasBC, bc, pm, md)
       IN  /\ lastDef' = r
           /\ assemblers' = IF r.kind = "ok" THEN Append(assemblers, r.cls)
                            ELSE assemblers
    /\ UNCHANGED <<builders, binst, ainst, heap, nextSolid, lastCall, hist, rec, dimset, nd>>

\* candidate part_map declarations of a class body
PartMapChoices ==
    { None,
      Some(<<>>),
      Some(<< << <<"p">>, <<"A", " ">> >> >>),
      Some(<< << <<"b">>, <<"a">> >> >>),
      Some(<< << <<"P", " ">>, <<"a">> >>, << <<"p">>, <<"b">> >> >>) }

\* candidate BuilderClass declarations: absent, or one of the defined builders
BuilderClassChoices == {<<FALSE, 0>>} \cup {<<TRUE, b>> : b \in DOMAIN builders}

InitAssemblers ==
    /\ builders = FixedBuilders
    /\ assemblers = <<>>
    /\ InitRest

NextAssemblers ==
    /\ Len(assemblers) < MaxAssemblers
    /\ \E bases \in BaseLists(Len(assemblers)), b \in BuilderClassChoices,
          pm \in PartMapChoices :
            DefineAssembler(bases, b[1], b[2], pm, None)

SpecAssemblers == InitAssemblers /\ [][NextAssemblers]_vars

(***************************************************************************)
(* AssemblerABC._get_resolved_metadata_map                                 *)
(***************************************************************************)
\* the class whose body supplies getattr(c, "get_metadata_map"): the first
\* class of c's __mro__ that overrides it; 0 when that is AssemblerABC's
\* abstract method
MetadataFunc(classes, c) ==
    IF c = 0 THEN 0
    ELSE LET mro == classes[c].mro
             own == {j \in DOMAIN mro : mro[j] # 0 /\ classes[mro[j]].meta # None}
         IN  IF own = {} THEN 0
             ELSE mro[CHOOSE j \in own : \A i \in own : j <= i]

\* what the get_metadata_map written in class o returns, in insertion order:
\* the metadata record of its i-th part key is <<o, i>>
get_metadata_map(classes, o) ==
    [i \in DOMAIN classes[o].meta[1] |-> <<classes[o].meta[1][i], <<o, i>> >>]

\* the loop over self.__class__.__mro__[1:]
RECURSIVE FoldMetadata(_, _, _)
FoldMetadata(classes, bases, resolved_map) ==
    IF bases = <<>> THEN resolved_map
    ELSE LET parent_func == MetadataFunc(classes, Head(bases))
         IN  IF parent_func = 0
             THEN FoldMetadata(classes, Tail(bases), resolved_map)
             ELSE FoldMetadata(classes, Tail(bases),
                      ND_or(ND_init(get_metadata_map(classes, parent_func)), resolved_map))

\* _get_resolved_metadata_map of an instance of the concrete class c
_get_resolved_metadata_map(classes, c) ==
    FoldMetadata(classes, Tail(classes[c].mro),
                 ND_init(get_metadata_map(classes, MetadataFunc(classes, c))))

\* An instance of the concrete assembler class c is constructed and asked for
\* its resolved metadata map (abstract classes cannot be instantiated).
ResolveMetadata(c) ==
    /\ MetadataFunc(assemblers, c) # 0
    /\ lastCall' = [op |-> "resolved_metadata", cls |-> c,
                    result |-> _get_resolved_metadata_map(assemblers, c)]
    /\ UNCHANGED <<builders, assemblers, lastDef, binst, ainst, heap, nextSolid, hist, rec, dimset, nd>>

\* candidate class bodies: get_metadata_map not overridden, or the part keys
\* it returns metadata for
MetaChoices ==
    { None,
      Some(<< <<" ", "P">> >>),
      Some(<< <<"q">> >>) }

NextMeta ==
    \/ /\ Len(assemblers) < MaxMetaClasses
       /\ \E bases \in BaseLists(Len(assemblers)), md \in MetaChoices :
              DefineAssembler(bases, TRUE, 1, None, md)
    \/ \E c \in DOMAIN assemblers : ResolveMetadata(c)

SpecMeta == InitAssemblers /\ [][NextMeta]_vars

(***************************************************************************)
(* Builder and assembler instances: BuilderABC.__init__, build_part,       *)
(* clear_cache and AssemblerABC.__init__                                   *)
(***************************************************************************)
\* mutant: the cache is one dict shared by all instances
builder_init_SharedCache(c) == [cls |-> c, cache |-> 1]

\* BuilderABC.__init__: self._solid_cache = NormalizedDict() is a new object
builder_init(c) == [cls |-> c, cache |-> Len(heap) + 1]

\* the heap after the constructor of builder record b has run
HeapWith(b) == IF b.cache > Len(heap) THEN Append(heap, EmptyMap) ELSE heap

NoHist == [cached |-> {}, before |-> {}]

NewBuilder(c) ==
    /\ Len(binst) < MaxInstances
    /\ LET b == builder_init(c)
       IN  /\ binst' = Append(binst, b)
           /\ heap' = HeapWith(b)
    /\ hist' = Append(hist, NoHist)
    /\ lastCall' = [op |-> "new_builder", inst |-> Len(binst) + 1]
    /\ UNCHANGED <<builders, assemblers, lastDef, ainst, nextSolid, rec, dimset, nd>>

\* AssemblerABC.__init__: self.builder = self._BuilderClass(dim); only a
\* class with a concrete get_metadata_map can be instantiated
NewAssembler(c) ==
    /\ Len(binst) < MaxInstances
    /\ MetadataFunc(assemblers, c) # 0
    /\ LET b == builder_init(assemblers[c].BuilderClass)
       IN  /\ binst' = Append(binst, b)
           /\ heap' = HeapWith(b)
    /\ ainst' = Append(ainst, [cls |-> c, builder |-> Len(binst) + 1])
    /\ hist' = Append(hist, NoHist)
    /\ lastCall' = [op |-> "new_assembler", inst |-> Len(binst) + 1]
    /\ UNCHANGED <<builders, assemblers, lastDef, nextSolid, rec, dimset, nd>>

InvalidPartType(builder_map) == [kind |-> "ValueError", available |-> DOMAIN builder_map]

\* mutant: the cache is read and written under the key as spelled
build_part_RawKey(builder_map, solid_cache, part_type, cached_solid, fresh) ==
    IF ~ND_contains(builder_map, part_type)
    THEN [result |-> InvalidPartType(builder_map), cache |-> solid_cache, built |-> FALSE]
    ELSE LET build_func == ND_getitem(builder_map, part_type)
         IN  IF cached_solid
             THEN IF part_type \notin DOMAIN solid_cache
                  THEN [result |-> [kind |-> "ok", obj |-> fresh, func |-> build_func],
                        cache |-> MapMerge(solid_cache, [k \in {part_type} |-> fresh]),
                        built |-> TRUE]
                  ELSE [result |-> [kind |-> "ok", obj |-> solid_cache[part_type],
                                    func |-> build_func],
                        cache |-> solid_cache, built |-> FALSE]
             ELSE [result |-> [kind |-> "ok", obj |-> fresh, func |-> build_func],
                   cache |-> solid_cache, built |-> TRUE]

\* mutant: a cached call reserves its cache slot before the registry lookup
build_part_SlotFirst(builder_map, solid_cache, part_type, cached_solid, fresh) ==
    IF ~ND_contains(builder_map, part_type)
    THEN [result |-> InvalidPartType(builder_map),
          cache |-> IF cached_solid THEN ND_setitem(solid_cache, part_type, 0)
                    ELSE solid_cache,
          built |-> FALSE]
    ELSE LET build_func == ND_getitem(builder_map, part_type)
         IN  IF cached_solid
             THEN LET cache == IF ~ND_contains(solid_cache, part_type)
                               THEN ND_setitem(solid_cache, part_type, fresh)
                               ELSE solid_cache
                  IN  [result |-> [kind |-> "ok", obj |-> ND_getitem(cache, part_type),
                                   func |-> build_func],
                       cache |-> cache,
                       built |-> ~ND_contains(solid_cache, part_type)]
             ELSE [result |-> [kind |-> "ok", obj |-> fresh, func |-> build_func],
                   cache |-> solid_cache, built |-> TRUE]

\* mutant: a cached call runs the construction operation every time
build_part_AlwaysBuild(builder_map, solid_cache, part_type, cached_solid, fresh) ==
    IF ~ND_contains(builder_map, part_type)
    THEN [result |-> InvalidPartType(builder_map), cache |-> solid_cache, built |-> FALSE]
    ELSE [result |-> [kind |-> "ok", obj |-> fresh,
                      func |-> ND_getitem(builder_map, part_type)],
          cache |-> IF cached_solid THEN ND_setitem(solid_cache, part_type, fresh)
                    ELSE solid_cache,
          built |-> TRUE]

\* mutant: an uncached call answers from the cache when it can and stores
\* what it builds
build_part_IgnoreFlag(builder_map, solid_cache, part_type, cached_solid, fresh) ==
    IF ~ND_contains(builder_map, part_type)
    THEN [result |-> InvalidPartType(builder_map), cache |-> solid_cache, built |-> FALSE]
    ELSE IF ND_contains(solid_cache, part_type)
    THEN [result |-> [kind |-> "ok", obj |-> ND_getitem(solid_cache, part_type),
                      func |-> ND_getitem(builder_map, part_type)],
          cache |-> solid_cache, built |-> FALSE]
    ELSE [result |-> [kind |-> "ok", obj |-> fresh,
                      func |-> ND_getitem(builder_map, part_type)],
          cache |-> ND_setitem(solid_cache, part_type, fresh), built |-> TRUE]

\* BuilderABC.build_part: what it returns or raises, the cache afterwards and
\* whether the construction operation ran; fresh is the identity of the
\* object a run of the construction operation produces
build_part(builder_map, solid_cache, part_type, cached_solid, fresh) ==
    IF ~ND_contains(builder_map, part_type)
    THEN [result |-> InvalidPartType(builder_map), cache |-> solid_cache, built |-> FALSE]
    ELSE LET build_func == ND_getitem(builder_map, part_type)
         IN  IF cached_solid
             THEN LET cache == IF ~ND_contains(solid_cache, part_type)
                               THEN ND_setitem(solid_cache, part_type, fresh)
                               ELSE solid_cache
                  IN  [result |-> [kind |-> "ok", obj |-> ND_getitem(cache, part_type),
                                   func |-> build_func],
                       cache |-> cache,
                       built |-> ~ND_contains(solid_cache, part_type)]
             ELSE [result |-> [kind |-> "ok", obj |-> fresh, func |-> build_func],
                   cache |-> solid_cache, built |-> TRUE]

\* self._builder_map and self._solid_cache of builder instance i
BuilderMapOf(i) == builders[binst[i].cls].builder_map
CacheOf(i) == heap[binst[i].cache]

BuildPart(i, part_type, cached_solid) ==
    LET r == build_part(BuilderMapOf(i), CacheOf(i), part_type, cached_solid,
                        nextSolid + 1)
    IN  /\ r.built => nextSolid < MaxSolids
        /\ heap' = [heap EXCEPT ![binst[i].cache] = r.cache]
        /\ nextSolid' = IF r.built THEN nextSolid + 1 ELSE nextSolid
        /\ lastCall' = [op |-> "build_part", inst |-> i, part_type |-> part_type,
                        cached_solid |-> cached_solid, result |-> r.result,
                        built |-> r.built]
        /\ hist' = IF r.result.kind = "ok" /\ cached_solid
                   THEN [hist EXCEPT ![i].cached =
                            @ \cup {<<normalize_item(part_type), r.result.obj>>}]
                   ELSE hist
        /\ UNCHANGED <<builders, assemblers, lastDef, binst, ainst, rec, dimset, nd>>

\* BuilderABC.clear_cache
clear_cache(solid_cache) == EmptyMap

ClearCache(i) ==
    /\ heap' = [heap EXCEPT ![binst[i].cache] = clear_cache(@)]
    /\ lastCall' = [op |-> "clear_cache", inst |-> i]
    /\ hist' = [hist EXCEPT ![i] =
                   [cached |-> {},
                    before |-> @.before \cup {x[2] : x \in @.cached}]]
    /\ UNCHANGED <<builders, assemblers, lastDef, binst, ainst, nextSolid, rec, dimset, nd>>

\* part types a caller passes to build_part
RawPartTypes == { <<"a">>, <<" ", "A">>, <<"b">> }

\* one concrete assembler over the builder Mid, with the identity part map
FixedAssemblers ==
    << AssemblerInitSubclass(<<>>, 1, <<0>>, TRUE, 2, None,
                             Some(<< <<"a">>, <<"b">> >>)).cls >>

InitRun ==
    /\ builders = FixedBuilders
    /\ assemblers = FixedAssemblers
    /\ InitRest

NextRun ==
    \/ \E c \in DOMAIN builders : NewBuilder(c)
    \/ \E c \in DOMAIN assemblers : NewAssembler(c)
    \/ \E i \in DOMAIN binst, pt \in RawPartTypes, cached \in BOOLEAN :
           BuildPart(i, pt, cached)
    \/ \E i \in DOMAIN binst : ClearCache(i)

SpecRun == InitRun /\ [][NextRun]_vars

(***************************************************************************)
(* BasicDimensionData: the object is its __dict__, a map from attribute    *)
(* name to value.  An operation gives the __dict__ it leaves behind and    *)
(* the exception it raises ("none" when it returns).                       *)
(***************************************************************************)
FreezeFlag == "_freeze_existing_attributes"

Ok(d) == [dict |-> d, exc |-> "none"]
Raise(d, e) == [dict |-> d, exc |-> e]

\* the value of a local variable's scope: The({ e : r \in {v} }) is the
\* expression e with the local variable r bound to the value v
The(S) == CHOOSE e \in S : TRUE

\* getattr(self, "_freeze_existing_attributes", False)
IsFrozen(d) == IF FreezeFlag \in DOMAIN d THEN d[FreezeFlag] ELSE FALSE

\* mutant: every attribute can be set while frozen
setattr_NoGuard(d, name, value) == Ok(MapMerge(d, [k \in {name} |-> value]))

\* mutant: a frozen record takes no new attribute either
setattr_Closed(d, name, value) ==
    IF IsFrozen(d) /\ name # FreezeFlag
    THEN Raise(d, "AttributeError")
    ELSE Ok(MapMerge(d, [k \in {name} |-> value]))

\* BasicDimensionData.__setattr__
__setattr__(d, name, value) ==
    IF IsFrozen(d) /\ name # FreezeFlag /\ name \in DOMAIN d
    THEN Raise(d, "AttributeError")
    ELSE Ok(MapMerge(d, [k \in {name} |-> value]))

\* BasicDimensionData.update: extra_dimensions is the keyword dict in order,
\* a sequence of <<name, value>>; the loop stops at the first exception
RECURSIVE update(_, _)
update(d, extra_dimensions) ==
    IF extra_dimensions = <<>> THEN Ok(d)
    ELSE The({ IF r.exc # "none" THEN r ELSE update(r.dict, Tail(extra_dimensions)) :
                   r \in {__setattr__(d, Head(extra_dimensions)[1],
                                      Head(extra_dimensions)[2])} })

\* BasicDimensionData.set_basic_dimensions
set_basic_dimensions(d, basic_dimensions, extra_dimensions) ==
    IF Len(basic_dimensions) # 3 THEN Raise(d, "TypeError")
    ELSE The({ IF r1.exc # "none" THEN r1
               ELSE The({ IF r2.exc # "none" THEN r2
                          ELSE __setattr__(r2.dict, "_has_basic_dimensions", TRUE) :
                              r2 \in {update(r1.dict,
                                             << <<"x_len", basic_dimensions[1]>>,
                                                <<"y_len", basic_dimensions[2]>>,
                                                <<"z_len", basic_dimensions[3]>> >>)} }) :
                   r1 \in {update(d, extra_dimensions)} })

\* mutant: freezing does not ask for the basic dimensions
freeze_NoPrecondition(d) == __setattr__(d, FreezeFlag, TRUE)

\* mutant: a second freeze switches the flag off again
freeze_Toggle(d) ==
    IF ~d["_has_basic_dimensions"] THEN Raise(d, "ValueError")
    ELSE __setattr__(d, FreezeFlag, ~IsFrozen(d))

\* BasicDimensionData.freeze_existing_attributes
freeze_existing_attributes(d) ==
    IF ~d["_has_basic_dimensions"] THEN Raise(d, "ValueError")
    ELSE __setattr__(d, FreezeFlag, TRUE)

\* delattr(self, name)
delattr(d, name) == [k \in (DOMAIN d) \ {name} |-> d[k]]

\* mutant: _post_init never freezes
_post_init_NoFreeze(d) == Ok(delattr(d, "_freeze"))

\* BasicDimensionData._post_init
_post_init(d) ==
    IF d["_freeze"]
    THEN The({ IF r.exc # "none" THEN r ELSE Ok(delattr(r.dict, "_freeze")) :
                   r \in {freeze_existing_attributes(d)} })
    ELSE Ok(d)

\* the default of __init__'s parameter freeze
DefaultFreeze == TRUE

\* BasicDimensionData.__init__ on the instance whose __dict__ is self (what a
\* subclass constructor assigned before it called super().__init__);
\* basic_dimensions is None or Some(sequence)
__init__self(self, basic_dimensions, freeze, extra_dimensions) ==
    The({ IF r1.exc # "none" THEN r1 ELSE __setattr__(r1.dict, "_freeze", freeze) :
              r1 \in { The({ IF basic_dimensions # None
                             THEN set_basic_dimensions(r0.dict, basic_dimensions[1],
                                                       extra_dimensions)
                             ELSE update(__setattr__(r0.dict, "_has_basic_dimensions",
                                                     FALSE).dict,
                                         extra_dimensions) :
                                 r0 \in {__setattr__(self, FreezeFlag, FALSE)} }) } })

\* BasicDimensionData.__init__ on a new instance
__init__(basic_dimensions, freeze, extra_dimensions) ==
    __init__self(<<>>, basic_dimensions, freeze, extra_dimensions)

\* _PostInitMeta.__call__: __init__, then _post_init on the new instance
BasicDimensionData(basic_dimensions, freeze, extra_dimensions) ==
    The({ IF r.exc # "none" THEN r ELSE _post_init(r.dict) :
              r \in {__init__(basic_dimensions, freeze, extra_dimensions)} })

\* arguments of the calls
BasicChoices == { <<1, 2, 3>>, <<4, 5, 6>>, <<1, 2>> }

ExtraChoices ==
    { <<>>,
      << <<"a", 1>> >>,
      << <<"a", 2>> >>,
      << <<"b", 1>>, <<"a", 2>> >>,
      << <<"x_len", 7>> >>,
      << <<FreezeFlag, FALSE>>, <<"a", 2>> >> }

AttrChoices ==
    { <<"a", 1>>, <<"a", 2>>, <<"b", 1>>, <<"x_len", 7>>, <<FreezeFlag, FALSE>> }

\* data = BasicDimensionData(basic_dimensions, freeze, **extra_dimensions)
Construct(basic_dimensions, freeze, extra_dimensions) ==
    /\ rec = None
    /\ LET r == BasicDimensionData(basic_dimensions, freeze, extra_dimensions)
       IN  /\ rec' = IF r.exc = "none" THEN Some(r.dict) ELSE None
           /\ lastCall' = [op |-> "init", basic |-> basic_dimensions, freeze |-> freeze,
                           names |-> extra_dimensions, exc |-> r.exc]
    /\ UNCHANGED <<builders, assemblers, lastDef, binst, ainst, heap, nextSolid, hist,
                   dimset, nd>>

\* data.name = value
SetAttr(name, value) ==
    /\ rec # None
    /\ LET r == __setattr__(rec[1], name, value)
       IN  /\ rec' = Some(r.dict)
           /\ lastCall' = [op |-> "setattr", names |-> << <<name, value>> >>,
                           exc |-> r.exc]
    /\ UNCHANGED <<builders, assemblers, lastDef, binst, ainst, heap, nextSolid, hist,
                   dimset, nd>>

\* data.update(**extra_dimensions)
Update(extra_dimensions) ==
    /\ rec # None
    /\ LET r == update(rec[1], extra_dimensions)
       IN  /\ rec' = Some(r.dict)
           /\ lastCall' = [op |-> "update", names |-> extra_dimensions, exc |-> r.exc]
    /\ UNCHANGED <<builders, assemblers, lastDef, binst, ainst, heap, nextSolid, hist,
                   dimset, nd>>

\* data.set_basic_dimensions(basic_dimensions, **extra_dimensions)
SetBasicDimensions(basic_dimensions, extra_dimensions) ==
    /\ rec # None
    /\ LET r == set_basic_dimensions(rec[1], basic_dimensions, extra_dimensions)
       IN  /\ rec' = Some(r.dict)
           /\ lastCall' = [op |-> "set_basic_dimensions", basic |-> basic_dimensions,
                           names |-> extra_dimensions, exc |-> r.exc]
    /\ UNCHANGED <<builders, assemblers, lastDef, binst, ainst, heap, nextSolid, hist,
                   dimset, nd>>

\* data.freeze_existing_attributes()
Freeze ==
    /\ rec # None
    /\ LET r == freeze_existing_attributes(rec[1])
       IN  /\ rec' = Some(r.dict)
           /\ lastCall' = [op |-> "freeze", names |-> <<>>, exc |-> r.exc]
    /\ UNCHANGED <<builders, assemblers, lastDef, binst, ainst, heap, nextSolid, hist,
                   dimset, nd>>

InitDim ==
    /\ builders = <<>>
    /\ assemblers = <<>>
    /\ InitRest

NextDim ==
    \/ \E basic \in {None} \cup {Some(b) : b \in BasicChoices}, freeze \in BOOLEAN,
          extra \in ExtraChoices : Construct(basic, freeze, extra)
    \/ \E a \in AttrChoices : SetAttr(a[1], a[2])
    \/ \E extra \in ExtraChoices : Update(extra)
    \/ \E basic \in BasicChoices, extra \in ExtraChoices : SetBasicDimensions(basic, extra)
    \/ Freeze

SpecDim == InitDim /\ [][NextDim]_vars

\* An argument of any type given as basic_dimensions: its type (kind) and the
\* elements len() counts, each element a pair of its own type and its value.
\* isinstance(basic_dimensions, Sequence) holds of tuple, list, str and range.
SequenceKinds == {"tuple", "list", "str", "range"}

\* BasicDimensionData.set_basic_dimensions called with an argument of any type
set_basic_dimensions_arg(d, arg, extra_dimensions) ==
    IF arg.kind \notin SequenceKinds \/ Len(arg.items) # 3
    THEN Raise(d, "TypeError")
    ELSE set_basic_dimensions(d, [i \in DOMAIN arg.items |-> arg.items[i][2]],
                              extra_dimensions)

\* arguments callers give: (1, 2, 3), [4, 5, 6], (1, 2), (1, 2, 3, 4),
\* {1, 2, 3}, 5, (1, "a", 3), "abc" and (None, None, None)
ArgChoices ==
    { [kind |-> "tuple", items |-> << <<"int", 1>>, <<"int", 2>>, <<"int", 3>> >>],
      [kind |-> "list", items |-> << <<"int", 4>>, <<"int", 5>>, <<"int", 6>> >>],
      [kind |-> "tuple", items |-> << <<"int", 1>>, <<"int", 2>> >>],
      [kind |-> "tuple",
       items |-> << <<"int", 1>>, <<"int", 2>>, <<"int", 3>>, <<"int", 4>> >>],
      [kind |-> "set", items |-> << <<"int", 1>>, <<"int", 2>>, <<"int", 3>> >>],
      [kind |-> "int", items |-> <<>>],
      [kind |-> "tuple", items |-> << <<"int", 1>>, <<"str", "a">>, <<"int", 3>> >>],
      [kind |-> "str", items |-> << <<"str", "a">>, <<"str", "b">>, <<"str", "c">> >>],
      [kind |-> "tuple",
       items |-> << <<"NoneType", "None">>, <<"NoneType", "None">>,
                    <<"NoneType", "None">> >>] }

\* data.set_basic_dimensions(arg, **extra_dimensions)
SetBasicDimensionsArg(arg, extra_dimensions) ==
    /\ rec # None
    /\ \E r \in {set_basic_dimensions_arg(rec[1], arg, extra_dimensions)} :
           /\ rec' = Some(r.dict)
           /\ lastCall' = [op |-> "set_basic_dimensions_arg", arg |-> arg,
                           names |-> extra_dimensions, exc |-> r.exc]
    /\ UNCHANGED <<builders, assemblers, lastDef, binst, ainst, heap, nextSolid, hist,
                   dimset, nd>>

NextDimArg ==
    \/ \E basic \in {None, Some(<<1, 2, 3>>)}, freeze \in BOOLEAN :
           Construct(basic, freeze, <<>>)
    \/ \E a \in AttrChoices : SetAttr(a[1], a[2])
    \/ \E arg \in ArgChoices, extra \in {<<>>, << <<"a", 1>> >>} :
           SetBasicDimensionsArg(arg, extra)
    \/ Freeze

SpecDimArg == InitDim /\ [][NextDimArg]_vars

(***************************************************************************)
(* DimensionData: a BasicDimensionData whose attribute                     *)
(* _part_types_dimensions is a NormalizedDict from part type to            *)
(* BasicDimensionData.                                                     *)
(***************************************************************************)
\* NormalizedDict.setdefault (MutableMapping.setdefault over __getitem__ and
\* __setitem__): the dict afterwards
ND_setdefault(d, key, default) ==
    IF ND_contains(d, key) THEN d ELSE ND_setitem(d, key, default)

\* the keys of NormalizedDict(pairs) in iteration order: first insertion
RECURSIVE ND_keys(_)
ND_keys(pairs) ==
    IF pairs = <<>> THEN <<>>
    ELSE LET prev == ND_keys(SubSeq(pairs, 1, Len(pairs) - 1))
             k == normalize_item(pairs[Len(pairs)][1])
         IN  IF k \in SeqToSet(prev) THEN prev ELSE Append(prev, k)

PartsAttr == "_part_types_dimensions"

\* DimensionData.__init__, the loop over dict_val.items(): parts is
\* self._part_types_dimensions
RECURSIVE SeedAttribute(_, _, _)
SeedAttribute(parts, attr, dict_val) ==
    IF dict_val = <<>> THEN [parts |-> parts, exc |-> "none"]
    ELSE LET part_type == Head(dict_val)[1]
             val == Head(dict_val)[2]
         IN  The({ The({ IF r.exc # "none" THEN [parts |-> parts1, exc |-> r.exc]
                         ELSE SeedAttribute(ND_setitem(parts1, part_type, r.dict),
                                            attr, Tail(dict_val)) :
                             r \in {__setattr__(ND_getitem(parts1, part_type),
                                                attr, val)} }) :
                       parts1 \in {ND_setdefault(parts, part_type,
                                       BasicDimensionData(None, FALSE, <<>>).dict)} })

\* DimensionData.__init__, the loop over part_type_attributes.items(): each
\* item is <<attr, is_dict, dict_val>>
RECURSIVE SeedAttributes(_, _)
SeedAttributes(parts, part_type_attributes) ==
    IF part_type_attributes = <<>> THEN [parts |-> parts, exc |-> "none"]
    ELSE LET item == Head(part_type_attributes)
         IN  IF ~item[2] THEN [parts |-> parts, exc |-> "TypeError"]
             ELSE The({ IF r.exc # "none" THEN r
                        ELSE SeedAttributes(r.parts, Tail(part_type_attributes)) :
                            r \in {SeedAttribute(parts, item[1], item[3])} })

\* DimensionData.__init__ on the instance whose __dict__ is self;
\* part_type_attributes is None or Some(items)
DimensionData__init__self(self, basic_dimensions, part_type_attributes, freeze, extra_dimensions) ==
    The({ IF r0.exc # "none" THEN r0
          ELSE The({ IF r1.exc # "none" THEN r1
                     ELSE The({ IF r2.exc # "none" THEN Raise(r1.dict, r2.exc)
                                ELSE Ok([r1.dict EXCEPT ![PartsAttr] = r2.parts]) :
                                    r2 \in {SeedAttributes(EmptyMap,
                                                OrEmpty(part_type_attributes))} }) :
                         r1 \in {__setattr__(r0.dict, PartsAttr, EmptyMap)} }) :
              r0 \in {__init__self(self, basic_dimensions, freeze, extra_dimensions)} })

\* DimensionData.__init__ on a new instance
DimensionData__init__(basic_dimensions, part_type_attributes, freeze, extra_dimensions) ==
    DimensionData__init__self(<<>>, basic_dimensions, part_type_attributes, freeze,
                              extra_dimensions)

\* DimensionData._normalize_part_type_dimensions: dimensions is a sequence
\* [seq |-> ...] of numbers, a pair [seq |-> ..., extras |-> ...] of a
\* sequence and a dict, or anything else
_normalize_part_type_dimensions(dimensions) ==
    IF dimensions.form = "tuple" /\ Len(dimensions.seq) = 3
    THEN [exc |-> "none", basic |-> dimensions.seq, extras |-> <<>>]
    ELSE IF dimensions.form = "pair" /\ Len(dimensions.seq) = 3
    THEN [exc |-> "none", basic |-> dimensions.seq, extras |-> dimensions.extras]
    ELSE [exc |-> "TypeError"]

\* DimensionData._add_part_types_dimensions, the loop over the items of
\* new_part_types_dimensions, keys being its keys in iteration order
RECURSIVE AddPartTypes(_, _, _)
AddPartTypes(parts, new_part_types_dimensions, keys) ==
    IF keys = <<>> THEN [parts |-> parts, exc |-> "none"]
    ELSE LET part_type == Head(keys)
             dimensions == new_part_types_dimensions[part_type]
             n == _normalize_part_type_dimensions(dimensions)
         IN  The({ IF n.exc # "none" THEN [parts |-> parts1, exc |-> n.exc]
                   ELSE The({ The({ IF r2.exc # "none"
                                    THEN [parts |-> ND_setitem(parts1, part_type, r2.dict),
                                          exc |-> r2.exc]
                                    ELSE AddPartTypes(
                                             ND_setitem(parts1, part_type, r2.dict),
                                             new_part_types_dimensions, Tail(keys)) :
                                        r2 \in { IF r1.exc # "none" THEN r1
                                                 ELSE freeze_existing_attributes(r1.dict) } }) :
                                  r1 \in {set_basic_dimensions(
                                              ND_getitem(parts1, part_type),
                                              n.basic, n.extras)} }) :
                       parts1 \in {ND_setdefault(parts, part_type,
                                       BasicDimensionData(None, FALSE, <<>>).dict)} })

\* DimensionData._post_init; part_types_dimensions is what the subclass's
\* get_part_types_dimensions returns, a sequence of <<part_type, dimensions>>
DimensionData_post_init(d, part_types_dimensions) ==
    The({ IF r.exc # "none" THEN Raise([d EXCEPT ![PartsAttr] = r.parts], r.exc)
          ELSE _post_init([d EXCEPT ![PartsAttr] = r.parts]) :
              r \in {AddPartTypes(d[PartsAttr], ND_init(part_types_dimensions),
                                  ND_keys(part_types_dimensions))} })

\* _PostInitMeta.__call__ on a DimensionData subclass
DimensionData(basic_dimensions, part_type_attributes, freeze, extra_dimensions, part_types_dimensions) ==
    The({ IF r.exc # "none" THEN r
          ELSE DimensionData_post_init(r.dict, part_types_dimensions) :
              r \in {DimensionData__init__(basic_dimensions, part_type_attributes,
                                           freeze, extra_dimensions)} })

\* DimensionData.__getitem__
DimensionData__getitem__(d, part_type) ==
    IF ND_contains(d[PartsAttr], part_type)
    THEN [exc |-> "none", value |-> ND_getitem(d[PartsAttr], part_type)]
    ELSE [exc |-> "KeyError", part_type |-> part_type]

\* candidate part_type_attributes arguments
PartTypeAttributeChoices ==
    { None,
      Some(<< <<"t", TRUE, << << <<"a">>, 2>>, << <<"b">>, 5>> >> >> >>),
      Some(<< <<"t", TRUE, << << <<"A", " ">>, 2>> >> >>,
              <<"u", TRUE, << << <<"a">>, 3>>, << <<"c">>, 4>> >> >> >>),
      Some(<< <<"t", FALSE, <<>> >> >>) }

\* candidate get_part_types_dimensions overrides: what they return
PartTypesDimensionsChoices ==
    { <<>>,
      << << <<"a">>, [form |-> "tuple", seq |-> <<1, 2, 3>>] >>,
         << <<"b">>, [form |-> "tuple", seq |-> <<4, 5, 6>>] >> >>,
      << << <<" ", "A">>, [form |-> "pair", seq |-> <<4, 5, 6>>,
                           extras |-> << <<"t", 9>> >>] >> >>,
      << << <<"a">>, [form |-> "tuple", seq |-> <<1, 2, 3>>] >>,
         << <<"A">>, [form |-> "tuple", seq |-> <<7, 8, 9>>] >> >>,
      << << <<"a">>, [form |-> "other", seq |-> <<>>] >> >> }

\* dim = SubClass(basic_dimensions, part_type_attributes, freeze), the
\* subclass overriding get_part_types_dimensions to return ptd
ConstructSet(basic_dimensions, part_type_attributes, freeze, ptd) ==
    /\ dimset = None
    /\ \E r \in {DimensionData(basic_dimensions, part_type_attributes, freeze, <<>>, ptd)} :
           /\ dimset' = IF r.exc = "none" THEN Some(r.dict) ELSE None
           /\ lastCall' = [op |-> "new_dimset", basic |-> basic_dimensions,
                           pta |-> part_type_attributes, freeze |-> freeze,
                           ptd |-> ptd, exc |-> r.exc]
    /\ UNCHANGED <<builders, assemblers, lastDef, binst, ainst, heap, nextSolid, hist,
                   rec, nd>>

\* dim[part_type]
GetItem(part_type) ==
    /\ dimset # None
    /\ lastCall' = [op |-> "getitem", part_type |-> part_type,
                    result |-> DimensionData__getitem__(dimset[1], part_type)]
    /\ UNCHANGED <<builders, assemblers, lastDef, binst, ainst, heap, nextSolid, hist,
                   rec, dimset, nd>>

\* part types a caller subscripts with
SubscriptChoices == { <<"a">>, <<"A", " ">>, <<"b">>, <<"c">>, <<"q">> }

NextDimSet ==
    \/ \E basic \in {Some(<<1, 2, 3>>), Some(<<1, 2>>)}, pta \in PartTypeAttributeChoices,
          freeze \in BOOLEAN, ptd \in PartTypesDimensionsChoices :
              ConstructSet(basic, pta, freeze, ptd)
    \/ \E pt \in SubscriptChoices : GetItem(pt)

SpecDimSet == InitDim /\ [][NextDimSet]_vars

(***************************************************************************)
(* _PostInitMeta.__call__ on a DimensionData subclass, step by step.  The  *)
(* subclass constructor assigns the attributes before, calls               *)
(* super().__init__ and assigns the attributes after; _post_init then      *)
(* calls the hook get_part_types_dimensions, handles the part types it     *)
(* returned one by one, and ends in BasicDimensionData._post_init.         *)
(* lastCall.pc is the position reached, dimset the instance.               *)
(***************************************************************************)
\* the subclass constructor
SubclassInit(before, basic_dimensions, part_type_attributes, freeze, after) ==
    The({ IF r0.exc # "none" THEN r0
          ELSE The({ IF r1.exc # "none" THEN r1 ELSE update(r1.dict, after) :
                         r1 \in {DimensionData__init__self(r0.dict, basic_dimensions,
                                     part_type_attributes, freeze, <<>>)} }) :
              r0 \in {update(<<>>, before)} })

\* instance = super().__call__(*args, **kwargs)
CtorInit(before, basic_dimensions, part_type_attributes, freeze, after) ==
    /\ dimset = None
    /\ \E r \in {SubclassInit(before, Some(basic_dimensions), part_type_attributes,
                               freeze, after)} :
           /\ dimset' = IF r.exc = "none" THEN Some(r.dict) ELSE None
           /\ lastCall' = [op |-> "ctor",
                           pc |-> IF r.exc = "none" THEN "hook" ELSE "raised",
                           before |-> before, basic |-> basic_dimensions,
                           pta |-> part_type_attributes, freeze |-> freeze,
                           after |-> after, ptd |-> <<>>, keys |-> <<>>,
                           assign |-> None, exc |-> r.exc]
    /\ UNCHANGED <<builders, assemblers, lastDef, binst, ainst, heap, nextSolid, hist,
                   rec, nd>>

\* NormalizedDict(**self.get_part_types_dimensions()): the hook returns ptd
CtorHook(ptd) ==
    /\ lastCall.op = "ctor"
    /\ lastCall.pc = "hook"
    /\ lastCall' = [lastCall EXCEPT !.pc = "add", !.ptd = ptd, !.keys = ND_keys(ptd)]
    /\ UNCHANGED <<builders, assemblers, lastDef, binst, ainst, heap, nextSolid, hist,
                   rec, dimset, nd>>

\* one round of the loop of _add_part_types_dimensions
CtorAddPart ==
    /\ lastCall.op = "ctor"
    /\ lastCall.pc = "add"
    /\ lastCall.keys # <<>>
    /\ \E r \in {AddPartTypes(dimset[1][PartsAttr], ND_init(lastCall.ptd),
                               <<Head(lastCall.keys)>>)} :
           /\ dimset' = IF r.exc = "none"
                        THEN Some([dimset[1] EXCEPT ![PartsAttr] = r.parts])
                        ELSE None
           /\ lastCall' = [lastCall EXCEPT
                               !.pc = IF r.exc = "none" THEN "add" ELSE "raised",
                               !.keys = Tail(lastCall.keys), !.exc = r.exc]
    /\ UNCHANGED <<builders, assemblers, lastDef, binst, ainst, heap, nextSolid, hist,
                   rec, nd>>

\* super()._post_init(*args, **kwargs), after which __call__ returns
CtorPostInit ==
    /\ lastCall.op = "ctor"
    /\ lastCall.pc = "add"
    /\ lastCall.keys = <<>>
    /\ \E r \in {_post_init(dimset[1])} :
           /\ dimset' = IF r.exc = "none" THEN Some(r.dict) ELSE None
           /\ lastCall' = [lastCall EXCEPT
                               !.pc = IF r.exc = "none" THEN "done" ELSE "raised",
                               !.exc = r.exc]
    /\ UNCHANGED <<builders, assemblers, lastDef, binst, ainst, heap, nextSolid, hist,
                   rec, nd>>

\* dim.name = value on the constructed instance
CtorAssign(name, value) ==
    /\ lastCall.op = "ctor"
    /\ lastCall.pc = "done"
    /\ \E r \in {__setattr__(dimset[1], name, value)} :
           /\ dimset' = Some(r.dict)
           /\ lastCall' = [lastCall EXCEPT !.assign = Some(<<name, value>>),
                                           !.exc = r.exc]
    /\ UNCHANGED <<builders, assemblers, lastDef, binst, ainst, heap, nextSolid, hist,
                   rec, nd>>

\* attributes a subclass constructor assigns before and after super().__init__
BodyChoices == { <<>>, << <<"special", 1>> >> }

\* assignments made to the constructed instance
LateAssignChoices ==
    { <<"x_len", 7>>, <<"special", 2>>, <<"new", 1>>, <<FreezeFlag, FALSE>> }

NextCtor ==
    \/ \E before \in BodyChoices, after \in BodyChoices,
          basic \in {<<1, 2, 3>>, <<1, 2>>}, pta \in PartTypeAttributeChoices,
          freeze \in BOOLEAN :
              CtorInit(before, basic, pta, freeze, after)
    \/ \E ptd \in PartTypesDimensionsChoices : CtorHook(ptd)
    \/ CtorAddPart
    \/ CtorPostInit
    \/ \E a \in LateAssignChoices : CtorAssign(a[1], a[2])

SpecCtor == InitDim /\ [][NextCtor]_vars

(***************************************************************************)
(* AssemblerABC.assemble and _get_assembly_data                            *)
(***************************************************************************)
UpperChar(c) ==
    CASE c = "a" -> "A"
      [] c = "b" -> "B"
      [] c = "c" -> "C"
      [] c = "p" -> "P"
      [] c = "q" -> "Q"
      [] OTHER -> c

IsLetter(c) == c \in Chars \ {" ", "_"}

\* str.title()
Title(s) ==
    [i \in DOMAIN s |->
        IF i = 1 \/ ~IsLetter(s[i - 1]) THEN UpperChar(s[i]) ELSE LowerChar(s[i])]

\* str.replace("_", " ")
ReplaceUnderscores(s) == [i \in DOMAIN s |-> IF s[i] = "_" THEN " " ELSE s[i]]

\* self.color
SelfColor == "burlywood"

\* mutant: the defaults are not filled in
PartMetadata_NoDefaults(resolved_metadata_map, part) ==
    IF ND_contains(resolved_metadata_map, part)
    THEN [entry |-> Some(ND_getitem(resolved_metadata_map, part)), defaults |-> None]
    ELSE [entry |-> None, defaults |-> None]

\* _get_assembly_data, the metadata of one part: the declared entry (the
\* entries of the model's classes hold loc, name and color, so setdefault adds
\* nothing to them), or {} with the defaults setdefault puts in
PartMetadata(resolved_metadata_map, part) ==
    IF ND_contains(resolved_metadata_map, part)
    THEN [entry |-> Some(ND_getitem(resolved_metadata_map, part)), defaults |-> None]
    ELSE [entry |-> None,
          defaults |-> Some([name |-> ReplaceUnderscores(Title(part)),
                             color |-> SelfColor])]

\* self._resolved_part_map[part] of a missing key: UserDict raises
\* KeyError(key) with the normalized key, and nothing else
MissingPart(part) ==
    [kind |-> "KeyError", key |-> Some(normalize_item(part)), available |-> None]

\* the exception of build_part, passed on
BuildError(part_type, result) ==
    [kind |-> result.kind, key |-> Some(part_type), available |-> Some(result.available)]

\* AssemblerABC._get_assembly_data, the loop over parts (a sequence, in
\* iteration order); data, solid_cache and solids are the list built so far,
\* the builder's cache and the number of solids built so far.  An entry of
\* data is the pair (solid, metadata); its field part records which part the
\* pair was made for.
RECURSIVE _get_assembly_data(_, _, _, _, _, _, _)
_get_assembly_data(parts, resolved_metadata_map, resolved_part_map, builder_map, data, solid_cache, solids) ==
    IF parts = <<>>
    THEN [exc |-> None, data |-> data, cache |-> solid_cache, solids |-> solids]
    ELSE LET part == Head(parts)
             metadata == PartMetadata(resolved_metadata_map, part)
         IN  IF ~ND_contains(resolved_part_map, part)
             THEN [exc |-> Some(MissingPart(part)), data |-> data,
                   cache |-> solid_cache, solids |-> solids]
             ELSE LET part_type == ND_getitem(resolved_part_map, part)
                      r == build_part(builder_map, solid_cache, part_type, TRUE,
                                      solids + 1)
                  IN  IF r.result.kind # "ok"
                      THEN [exc |-> Some(BuildError(part_type, r.result)), data |-> data,
                            cache |-> solid_cache, solids |-> solids]
                      ELSE _get_assembly_data(
                               Tail(parts), resolved_metadata_map, resolved_part_map,
                               builder_map,
                               Append(data, [part |-> part, solid |-> r.result.obj,
                                             part_type |-> normalize_item(part_type),
                                             metadata |-> metadata]),
                               r.cache,
                               IF r.built THEN solids + 1 ELSE solids)

\* mutant: without parts, the part types of the map are assembled
assembly_parts_Values(parts, resolved_part_map) ==
    IF parts # None /\ parts[1] # {} THEN parts[1] ELSE Values(resolved_part_map)

\* AssemblerABC.assemble: set(parts) if parts else self._resolved_part_map.keys();
\* parts is None or Some(the set of the collection's elements)
assembly_parts(parts, resolved_part_map) ==
    IF parts # None /\ parts[1] # {} THEN parts[1] ELSE DOMAIN resolved_part_map

\* the orders in which a set can be iterated
Orders(S) ==
    {s \in [1..Cardinality(S) -> S] : \A i, j \in DOMAIN s : s[i] = s[j] => i = j}

\* assembler.assemble(parts) on assembler instance a, the parts iterated in
\* the given order; cq.Assembly.add is called once for every pair of data
Assemble(a, parts, order) ==
    LET cls == assemblers[ainst[a].cls]
        b == ainst[a].builder
    IN  /\ order \in Orders(assembly_parts(parts, cls.resolved_part_map))
        /\ \E r \in {_get_assembly_data(
                          order, _get_resolved_metadata_map(assemblers, ainst[a].cls),
                          cls.resolved_part_map, BuilderMapOf(b), <<>>, CacheOf(b),
                          nextSolid)} :
               /\ heap' = [heap EXCEPT ![binst[b].cache] = r.cache]
               /\ nextSolid' = r.solids
               /\ hist' = [hist EXCEPT ![b].cached =
                              @ \cup {<<r.data[i].part_type, r.data[i].solid>> :
                                         i \in DOMAIN r.data}]
               /\ lastCall' = [op |-> "assemble", inst |-> a, parts |-> parts,
                               exc |-> r.exc,
                               children |-> IF r.exc = None THEN r.data ELSE <<>>]
        /\ UNCHANGED <<builders, assemblers, lastDef, binst, ainst, rec, dimset, nd>>

\* the assembler classes of the assemble specification: Box over the builder
\* Mid maps three parts and declares metadata for two of them; Lid(Box) remaps
\* one part and declares the missing metadata
BoxClass ==
    AssemblerInitSubclass(<<>>, 1, <<0>>, TRUE, 2,
        Some(<< << <<"p">>, <<"a">> >>,
                << <<"P", "_", "q">>, <<"b">> >>,
                << <<"q">>, <<"a">> >> >>),
        Some(<< <<"p">>, <<"Q", " ">> >>)).cls

LidClass ==
    AssemblerInitSubclass(<<BoxClass>>, 2, <<1>>, TRUE, 2,
        Some(<< << <<"Q">>, <<"B">> >> >>),
        Some(<< <<"p", "_", "q">> >>)).cls

AssembleClasses == <<BoxClass, LidClass>>

\* the parts arguments of assemble: none, or the elements of a collection
PartsChoices ==
    { None,
      Some({}),
      Some({<<"p">>}),
      Some({<<"Q", " ">>}),
      Some({<<"P", "_", "q">>}),
      Some({<<"p">>, <<" ", "P">>}),
      Some({<<"q">>, <<"p", "_", "q">>}),
      Some({<<"c">>}),
      Some({<<"p">>, <<"C", " ">>}) }

InitAssemble ==
    /\ builders = FixedBuilders
    /\ assemblers = AssembleClasses
    /\ InitRest

\* one assembler is constructed and asked to assemble; every part type is
\* built at most once, since assemble builds with the cache on
NextAssemble ==
    \/ \E c \in DOMAIN assemblers : ainst = <<>> /\ NewAssembler(c)
    \/ \E a \in DOMAIN ainst, parts \in PartsChoices :
           \E order \in Orders(assembly_parts(parts,
                                   assemblers[ainst[a].cls].resolved_part_map)) :
               Assemble(a, parts, order)

SpecAssemble == InitAssemble /\ [][NextAssemble]_vars

\* the number of runs of construction operations a behaviour makes
MaxBuilds == 4

\* assemble calls on one assembler, interleaved with clear_cache and with
\* uncached build_part calls on the assembler's builder
NextShare ==
    \/ \E c \in DOMAIN assemblers : ainst = <<>> /\ NewAssembler(c)
    \/ \E a \in DOMAIN ainst, parts \in PartsChoices :
           \E order \in Orders(assembly_parts(parts,
                                   assemblers[ainst[a].cls].resolved_part_map)) :
               Assemble(a, parts, order) /\ nextSolid' <= MaxBuilds
    \/ \E a \in DOMAIN ainst : ClearCache(ainst[a].builder)
    \/ \E a \in DOMAIN ainst, pt \in RawPartTypes :
           BuildPart(ainst[a].builder, pt, FALSE)

SpecShare == InitAssemble /\ [][NextShare]_vars

(***************************************************************************)
(* The resolved_part_map accessor, and class definitions interleaved with  *)
(* operations on instances                                                 *)
(***************************************************************************)
\* mutant: the accessor returns the class's own map
resolved_part_map_NoCopy(cls) == [alias |-> TRUE, data |-> cls.resolved_part_map]

\* AssemblerABC.resolved_part_map: self._resolved_part_map.copy() is a new
\* object with the same items
resolved_part_map(cls) == [alias |-> FALSE, data |-> cls.resolved_part_map]

\* m = assembler.resolved_part_map; m[key] = value
MutateResolvedPartMap(a, key, value) ==
    /\ \E m \in {resolved_part_map(assemblers[ainst[a].cls])} :
           /\ assemblers' = IF m.alias
                            THEN [assemblers EXCEPT ![ainst[a].cls].resolved_part_map =
                                     ND_setitem(m.data, key, value)]
                            ELSE assemblers
           /\ lastCall' = [op |-> "mutate_part_map", inst |-> a, read |-> m.data,
                           map |-> ND_setitem(m.data, key, value)]
    /\ UNCHANGED <<builders, lastDef, binst, ainst, heap, nextSolid, hist, rec, dimset, nd>>

\* the items written into the map the accessor returned
MutateChoices == { << <<"a">>, <<"b">> >>, << <<"Q", " ">>, <<"a">> >> }

\* further builder and assembler classes are defined while one assembler
\* instance is in use
NextFixed ==
    \/ \E bases \in {<<1>>, <<2, 1>>} : DefineBuilder(bases, << <<"A">>, <<"c">> >>)
    \/ /\ Len(assemblers) < MaxAssemblers
       /\ \E bases \in {b \in {<<1>>, <<2, 1>>} : \A i \in DOMAIN b : b[i] <= Len(assemblers)},
             pm \in {None, Some(<< << <<"P">>, <<"a">> >> >>)} :
               DefineAssembler(bases, TRUE, Len(builders), pm, None)
    \/ \E c \in DOMAIN assemblers : ainst = <<>> /\ NewAssembler(c)
    \/ \E a \in DOMAIN ainst, parts \in {None, Some({<<"q">>})} :
           \E order \in Orders(assembly_parts(parts,
                                   assemblers[ainst[a].cls].resolved_part_map)) :
               Assemble(a, parts, order) /\ nextSolid' <= MaxSolids
    \/ \E a \in DOMAIN ainst, cached \in BOOLEAN :
           BuildPart(ainst[a].builder, <<" ", "A">>, cached)
    \/ \E a \in DOMAIN ainst : ClearCache(ainst[a].builder)
    \/ \E a \in DOMAIN ainst, kv \in MutateChoices :
           MutateResolvedPartMap(a, kv[1], kv[2])

SpecFixed == InitRun /\ [][NextFixed]_vars

(***************************************************************************)
(* NormalizedDict as an object: nd is its data.  The operations it does    *)
(* not override are those of UserDict and MutableMapping.  A plain dict is *)
(* the sequence of its items <<key, value>>, the keys distinct.            *)
(***************************************************************************)
\* the data of a plain dict
DictOf(items) ==
    [k \in {items[i][1] : i \in DOMAIN items} |->
        items[CHOOSE i \in DOMAIN items : items[i][1] = k][2]]

\* MutableMapping.update(other): self[key] = value for every item, in order
RECURSIVE ND_update(_, _)
ND_update(d, items) ==
    IF items = <<>> THEN d
    ELSE ND_update(ND_setitem(d, Head(items)[1], Head(items)[2]), Tail(items))

\* NormalizedDict.__delitem__: the data afterwards and the exception
ND_delitem(d, key) ==
    IF normalize_item(key) \in DOMAIN d
    THEN [data |-> [k \in (DOMAIN d) \ {normalize_item(key)} |-> d[k]], exc |-> "none"]
    ELSE [data |-> d, exc |-> "KeyError"]

\* MutableMapping.pop(key) and pop(key, default): default is None or Some(value)
ND_pop(d, key, default) ==
    IF ND_contains(d, key)
    THEN [data |-> ND_delitem(d, key).data, exc |-> "none",
          value |-> Some(ND_getitem(d, key))]
    ELSE IF default = None THEN [data |-> d, exc |-> "KeyError", value |-> None]
    ELSE [data |-> d, exc |-> "none", value |-> default]

\* UserDict.__or__: self.__class__(self.data | other_data).  In the merged
\* dict the keys of self.data come first, in their insertion order (order),
\* holding other's value where other has the very same key; other's remaining
\* items follow.  The constructor stores the items one by one.
UserDict__or__(d, order, items) ==
    LET other == DictOf(items)
        first == [i \in DOMAIN order |->
                     <<order[i], IF order[i] \in DOMAIN other THEN other[order[i]]
                                 ELSE d[order[i]]>>]
        rest == SelectSeq(items, LAMBDA it : it[1] \notin DOMAIN d)
    IN  ND_update(EmptyMap, first \o rest)

\* UserDict.__ior__: self.data |= other_data
UserDict__ior__(d, items) == MapMerge(d, DictOf(items))

\* the items of the other operand of a merge: those of the plain dict, or of
\* NormalizedDict(items) when the operand is a NormalizedDict
OtherData(items, normalized) ==
    IF normalized
    THEN LET o == ND_init(items)
             keys == ND_keys(items)
         IN  [i \in DOMAIN keys |-> <<keys[i], o[keys[i]]>>]
    ELSE items

\* NormalizedDict.__setitem__ on any key: normalize_item(key, raise_error=True)
\* turns the AttributeError of a key without strip() into TypeError
NormalizedDict__setitem__(d, key, value) ==
    IF ~HasStripLower(key) THEN [data |-> d, exc |-> "TypeError"]
    ELSE [data |-> ND_setitem(d, key, value), exc |-> "none"]

\* NormalizedDict.__contains__ on any key: the dict lookup hashes the key
NormalizedDict__contains__(d, key) ==
    IF ~Hashable(normalize_item(key)) THEN [exc |-> "TypeError", found |-> FALSE]
    ELSE [exc |-> "none", found |-> ND_contains(d, key)]

\* Mapping.get(key, default): self[key], default on KeyError; value is None
\* or Some(the value found)
NormalizedDict_get(d, key, default) ==
    IF ~Hashable(normalize_item(key))
    THEN [exc |-> "TypeError", found |-> FALSE, value |-> None]
    ELSE IF ND_contains(d, key)
    THEN [exc |-> "none", found |-> TRUE, value |-> Some(ND_getitem(d, key))]
    ELSE [exc |-> "none", found |-> FALSE, value |-> default]

\* keys and dicts the callers use
RawKeys == { <<"a">>, <<" ", "A">>, <<"b">>, <<"B", " ">> }

DictChoices ==
    { <<>>,
      << << <<" ", "A">>, 1>> >>,
      << << <<"a">>, 1>>, << <<" ", "A">>, 2>> >>,
      << << <<"B", " ">>, 2>>, << <<"a">>, 1>> >>,
      << << <<"b">>, 1>> >> }

\* keys that are not str: 10, None, b" A" and [1]
NonStringKeys ==
    { <<"int", "10">>, <<"None">>, <<"bytes", " ", "A">>, <<"list", "1">> }

NDFrame == <<builders, assemblers, lastDef, binst, ainst, heap, nextSolid, hist,
             rec, dimset>>

\* d = NormalizedDict(mapping): UserDict.__init__ calls update
NDConstruct(items) ==
    /\ nd' = ND_init(items)
    /\ lastCall' = [op |-> "init", items |-> items, exc |-> "none"]
    /\ UNCHANGED NDFrame

\* d[key] = value
NDSetItem(key, value) ==
    /\ nd' = NormalizedDict__setitem__(nd, key, value).data
    /\ lastCall' = [op |-> "setitem", items |-> << <<key, value>> >>,
                    exc |-> NormalizedDict__setitem__(nd, key, value).exc]
    /\ UNCHANGED NDFrame

\* key in d
NDContains(key) ==
    /\ lastCall' = [op |-> "contains", items |-> << <<key, 0>> >>,
                    exc |-> NormalizedDict__contains__(nd, key).exc,
                    found |-> NormalizedDict__contains__(nd, key).found]
    /\ UNCHANGED <<NDFrame, nd>>

\* d.get(key)
NDGet(key) ==
    /\ lastCall' = [op |-> "get", items |-> << <<key, 0>> >>,
                    exc |-> NormalizedDict_get(nd, key, None).exc,
                    found |-> NormalizedDict_get(nd, key, None).found]
    /\ UNCHANGED <<NDFrame, nd>>

\* d.update(other)
NDUpdate(items) ==
    /\ nd' = ND_update(nd, items)
    /\ lastCall' = [op |-> "update", items |-> items, exc |-> "none"]
    /\ UNCHANGED NDFrame

\* d.setdefault(key, value)
NDSetDefault(key, value) ==
    /\ nd' = ND_setdefault(nd, key, value)
    /\ lastCall' = [op |-> "setdefault", items |-> << <<key, value>> >>, exc |-> "none"]
    /\ UNCHANGED NDFrame

\* del d[key]
NDDelItem(key) ==
    /\ nd' = ND_delitem(nd, key).data
    /\ lastCall' = [op |-> "delitem", items |-> << <<key, 0>> >>,
                    exc |-> ND_delitem(nd, key).exc]
    /\ UNCHANGED NDFrame

\* d.pop(key) and d.pop(key, default)
NDPop(key, default) ==
    /\ nd' = ND_pop(nd, key, default).data
    /\ lastCall' = [op |-> "pop", items |-> << <<key, 0>> >>,
                    exc |-> ND_pop(nd, key, default).exc]
    /\ UNCHANGED NDFrame

\* d = d | other
NDOr(items, normalized, order) ==
    /\ order \in Orders(DOMAIN nd)
    /\ nd' = UserDict__or__(nd, order, OtherData(items, normalized))
    /\ lastCall' = [op |-> "or", items |-> items, exc |-> "none"]
    /\ UNCHANGED NDFrame

\* d |= other
NDIor(items, normalized) ==
    /\ nd' = UserDict__ior__(nd, OtherData(items, normalized))
    /\ lastCall' = [op |-> "ior", items |-> items, exc |-> "none"]
    /\ UNCHANGED NDFrame

NextND ==
    \/ \E items \in DictChoices : NDConstruct(items)
    \/ \E key \in RawKeys, value \in {1, 2} : NDSetItem(key, value)
    \/ \E key \in RawKeys : NDContains(key)
    \/ \E key \in RawKeys : NDGet(key)
    \/ \E items \in DictChoices : NDUpdate(items)
    \/ \E key \in RawKeys, value \in {1, 2} : NDSetDefault(key, value)
    \/ \E key \in RawKeys : NDDelItem(key)
    \/ \E key \in RawKeys, default \in {None, Some(2)} : NDPop(key, default)
    \/ \E items \in DictChoices, normalized \in BOOLEAN, order \in Orders(DOMAIN nd) :
           NDOr(items, normalized, order)
    \/ \E items \in DictChoices, normalized \in BOOLEAN : NDIor(items, normalized)

SpecND == InitDim /\ [][NextND]_vars

\* a NormalizedDict written and looked up with keys of any type
NextKeys ==
    \/ \E items \in DictChoices : NDConstruct(items)
    \/ \E key \in RawKeys \cup NonStringKeys, value \in {1, 2} : NDSetItem(key, value)
    \/ \E key \in RawKeys \cup NonStringKeys : NDContains(key)
    \/ \E key \in RawKeys \cup NonStringKeys : NDGet(key)
    \/ \E key \in RawKeys \cup NonStringKeys : NDDelItem(key)

SpecKeys == InitDim /\ [][NextKeys]_vars

(***************************************************************************)
(* Builder registries: claims C2 and C3                                    *)
(***************************************************************************)
\* classes of c's ancestry chain other than c itself and the framework base
Ancestors(classes, c) == SeqToSet(classes[c].mro) \ {c, 0}

\* part types the class body of builder c tags itself, normalized
OwnPartTypes(c) == {normalize_item(builders[c].tags[i]) : i \in DOMAIN builders[c].tags}

\* position of class a in the ancestry chain of class c
MroIndex(classes, c, a) == CHOOSE i \in DOMAIN classes[c].mro : classes[c].mro[i] = a

\* C2: the resolved registry's keys are the union of the ancestors' registry
\* keys and the part types the subtype tags itself, and every part type the
\* subtype tags maps to one of the subtype's own operations tagged with it.
C2_RegistryIsUnion ==
    \A c \in DOMAIN builders :
        /\ DOMAIN builders[c].builder_map =
               UNION {DOMAIN builders[a].builder_map : a \in Ancestors(builders, c)}
               \cup OwnPartTypes(c)
        /\ \A k \in OwnPartTypes(c) :
               LET op == builders[c].builder_map[k]
               IN  /\ op[1] = c
                   /\ normalize_item(builders[c].tags[op[2]]) = k

\* a subtype that retags a part type of one of its ancestors
C2_Witness ==
    \E c \in DOMAIN builders : \E a \in Ancestors(builders, c) :
        OwnPartTypes(c) \cap DOMAIN builders[a].builder_map # {}

\* C3 as stated: every key of an ancestor's registry is a key of the subtype's
\* registry, with the ancestor's operation unless the subtype tags the key.
C3_Original ==
    \A s \in DOMAIN builders : \A a \in Ancestors(builders, s) :
        \A k \in DOMAIN builders[a].builder_map :
            /\ k \in DOMAIN builders[s].builder_map
            /\ k \notin OwnPartTypes(s) =>
                   builders[s].builder_map[k] = builders[a].builder_map[k]

\* classes placed before a in the ancestry chain of s (s itself excluded)
Before(s, a) ==
    {builders[s].mro[i] : i \in 2..(MroIndex(builders, s, a) - 1)} \ {0}

\* C3 amended: every key of an ancestor's registry is a key of the subtype's
\* registry; it maps to the ancestor's operation unless the subtype tags the
\* key or a class placed before the ancestor in the subtype's ancestry chain
\* maps the key to another operation.
C3_Monotone ==
    \A s \in DOMAIN builders : \A a \in Ancestors(builders, s) :
        \A k \in DOMAIN builders[a].builder_map :
            /\ k \in DOMAIN builders[s].builder_map
            /\ ( /\ k \notin OwnPartTypes(s)
                 /\ \A b \in Before(s, a) :
                        k \in DOMAIN builders[b].builder_map =>
                            builders[b].builder_map[k] = builders[a].builder_map[k] )
               => builders[s].builder_map[k] = builders[a].builder_map[k]

\* a subtype with two parents that inherits a key it does not tag from its
\* second parent, no class before that parent giving the key another operation
C3_Witness ==
    \E s \in DOMAIN builders :
        /\ Len(builders[s].bases) = 2
        /\ LET a == builders[s].bases[2]
           IN  /\ a # 0
               /\ \E k \in DOMAIN builders[a].builder_map :
                      /\ k \notin OwnPartTypes(s)
                      /\ \A b \in Before(s, a) :
                             k \in DOMAIN builders[b].builder_map =>
                                 builders[b].builder_map[k] = builders[a].builder_map[k]
                      /\ builders[s].builder_map[k] = builders[a].builder_map[k]

(***************************************************************************)
(* Assembler part maps: claims C1, C4, C5 and C6                           *)
(***************************************************************************)
\* the part-type registry of an assembler class record's BuilderClass
RegistryOf(cls) == DOMAIN builders[cls.BuilderClass].builder_map

\* the ancestor-resolved map of an assembler class record: every part key of
\* an ancestor's resolved map, with the value of the first class of the
\* ancestry chain (most specific first) that has the key
AncestorKeys(cls) ==
    UNION {DOMAIN assemblers[cls.mro[i]].resolved_part_map :
               i \in {j \in 2..Len(cls.mro) : cls.mro[j] # 0}}

FirstWith(cls, k) ==
    LET has == {j \in 2..Len(cls.mro) :
                    /\ cls.mro[j] # 0
                    /\ k \in DOMAIN assemblers[cls.mro[j]].resolved_part_map}
    IN  cls.mro[CHOOSE j \in has : \A i \in has : j <= i]

AncestorPartMap(cls) ==
    [k \in AncestorKeys(cls) |-> assemblers[FirstWith(cls, k)].resolved_part_map[k]]

OwnPartMap(cls) == NormalizedPartMap(OrEmpty(cls.part_map))

\* C1: every value of a defined assembler's resolved part map is a key of its
\* BuilderClass's registry; a class statement whose final resolved map has a
\* value outside the registry raises the configuration error naming exactly
\* those values, and the class is not among the defined ones.
C1_PartMapValuesValid ==
    /\ \A c \in DOMAIN assemblers :
           Values(assemblers[c].resolved_part_map) \subseteq RegistryOf(assemblers[c])
    /\ (lastDef.what = "assembler" /\ "cls" \in DOMAIN lastDef) =>
           LET bad == Values(lastDef.cls.resolved_part_map) \ RegistryOf(lastDef.cls)
           IN  IF bad # {}
               THEN /\ lastDef.kind = "ValueError"
                    /\ lastDef.invalid = bad
                    /\ \A c \in DOMAIN assemblers : assemblers[c] # lastDef.cls
               ELSE /\ lastDef.kind = "ok"
                    /\ assemblers[Len(assemblers)] = lastDef.cls

\* a class statement rejected for an inherited value only: every value of its
\* own part_map is in the registry of its BuilderClass
C1_Witness ==
    /\ lastDef.kind = "ValueError"
    /\ lastDef.invalid # {}
    /\ lastDef.invalid \cap Values(OwnPartMap(lastDef.cls)) = {}
    /\ Len(assemblers) >= 1

\* C4: a subtype that declares a part map resolves to the ancestor-resolved
\* map merged with its own map, its own entries winning.
C4_DeclaredMapMerged ==
    \A c \in DOMAIN assemblers :
        assemblers[c].part_map # None =>
            assemblers[c].resolved_part_map =
                MapMerge(AncestorPartMap(assemblers[c]), OwnPartMap(assemblers[c]))

\* C5: a subtype that declares no part map resolves to the ancestor-resolved
\* map together with the identity entry of every registry part type that is
\* not a value of the ancestor-resolved map.
C5_UndeclaredMapIdentity ==
    \A c \in DOMAIN assemblers :
        assemblers[c].part_map = None =>
            LET par == AncestorPartMap(assemblers[c])
                newPts == RegistryOf(assemblers[c]) \ Values(par)
                res == assemblers[c].resolved_part_map
            IN  /\ DOMAIN res = (DOMAIN par) \cup newPts
                /\ \A k \in DOMAIN par : res[k] = par[k]
                /\ \A pt \in newPts : res[pt] = pt

\* C6: a subtype that declares no part map maps to every part type of its
\* BuilderClass's registry, and to nothing else.
C6_AllPartTypesMapped ==
    \A c \in DOMAIN assemblers :
        assemblers[c].part_map = None =>
            Values(assemblers[c].resolved_part_map) = RegistryOf(assemblers[c])

(***************************************************************************)
(* Combined metadata map: claim C7                                         *)
(***************************************************************************)
\* part keys the get_metadata_map written in class o returns, normalized
OwnMetaKeys(o) ==
    IF assemblers[o].meta = None THEN {}
    ELSE {normalize_item(assemblers[o].meta[1][i]) : i \in DOMAIN assemblers[o].meta[1]}

\* the most specific class of c's ancestry chain whose own accessor defines k
MostSpecific(c, k) ==
    LET mro == assemblers[c].mro
        def == {j \in DOMAIN mro : mro[j] # 0 /\ k \in OwnMetaKeys(mro[j])}
    IN  mro[CHOOSE j \in def : \A i \in def : j <= i]

\* C7: the combined metadata map has the keys of the own accessors of all
\* classes of the ancestry chain, each with the metadata of the most specific
\* class of the chain whose own accessor defines it.
C7_MetadataMostSpecific ==
    lastCall.op = "resolved_metadata" =>
        LET c == lastCall.cls
            keys == UNION {OwnMetaKeys(o) : o \in SeqToSet(assemblers[c].mro) \ {0}}
        IN  /\ DOMAIN lastCall.result = keys
            /\ \A k \in keys : lastCall.result[k][1] = MostSpecific(c, k)

(***************************************************************************)
(* Solid cache: claims C8, C9 and C10                                      *)
(***************************************************************************)
\* C8: between two clear_cache calls all cached build_part calls of one
\* builder instance for one part type (however spelled) return the same
\* object, and no cached call returns a solid that a cached call returned
\* before the last clear_cache.
C8_CacheIdentity ==
    \A i \in DOMAIN binst :
        /\ \A x \in hist[i].cached : \A y \in hist[i].cached :
               x[1] = y[1] => x[2] = y[2]
        /\ \A x \in hist[i].cached : x[2] \notin hist[i].before

\* a cached call spelled " A" is answered, without building, with the solid
\* stored under "a", on an instance whose cache was cleared and refilled before
C8_Witness ==
    /\ lastCall.op = "build_part"
    /\ lastCall.cached_solid
    /\ lastCall.part_type = <<" ", "A">>
    /\ lastCall.result.kind = "ok"
    /\ ~lastCall.built
    /\ lastCall.result.obj = nextSolid
    /\ hist[lastCall.inst].before # {}
    /\ hist[lastCall.inst].cached = {<< <<"a">>, nextSolid >>}
    /\ nextSolid = MaxSolids

\* the solids a builder instance's cached calls have returned so far
Returned(i) == hist[i].before \cup {x[2] : x \in hist[i].cached}

\* C9: a build_part or clear_cache on one builder instance leaves the cache
\* of every other builder instance unchanged, and no solid in the cache of one
\* instance has been returned by another instance.
C9_InstanceScoped ==
    /\ [][ \A i \in DOMAIN binst :
               (lastCall'.op \in {"build_part", "clear_cache"} /\ lastCall'.inst # i)
                   => heap'[binst'[i].cache] = heap[binst[i].cache] ]_vars
    /\ [](\A i \in DOMAIN binst : \A j \in DOMAIN binst :
               i # j => Values(heap[binst[i].cache]) \cap Returned(j) = {})

\* the builders of two assemblers hold different solids for one part type
C9_Witness ==
    /\ Len(ainst) = 2
    /\ LET c1 == heap[binst[ainst[1].builder].cache]
           c2 == heap[binst[ainst[2].builder].cache]
       IN  /\ <<"a">> \in DOMAIN c1
           /\ <<"a">> \in DOMAIN c2
           /\ c1[<<"a">>] # c2[<<"a">>]

\* C10: build_part with a part type whose normalized form is not a key of the
\* instance's registry raises the not-found error listing the registry's
\* keys, cached or not, and the caches and the solids built stay as they were.
C10_InvalidPartType ==
    [][ ( /\ lastCall'.op = "build_part"
          /\ normalize_item(lastCall'.part_type) \notin
                 DOMAIN builders[binst[lastCall'.inst].cls].builder_map )
        => /\ lastCall'.result.kind = "ValueError"
           /\ lastCall'.result.available =
                  DOMAIN builders[binst[lastCall'.inst].cls].builder_map
           /\ heap' = heap
           /\ nextSolid' = nextSolid ]_vars

\* a cached call for an unknown part type has failed on an instance whose
\* cache holds a solid
C10_Witness ==
    /\ lastCall.op = "build_part"
    /\ lastCall.cached_solid
    /\ lastCall.result.kind = "ValueError"
    /\ lastCall.result.available = {<<"a">>}
    /\ heap[binst[lastCall.inst].cache] # EmptyMap

(***************************************************************************)
(* Dimension records: claims C11 to C14                                    *)
(***************************************************************************)
\* the assignments <<name, value>> a call reaches for, in the order it makes them
Assignments(call) ==
    IF call.op = "set_basic_dimensions"
    THEN IF Len(call.basic) # 3 THEN <<>>
         ELSE call.names \o << <<"x_len", call.basic[1]>>, <<"y_len", call.basic[2]>>,
                               <<"z_len", call.basic[3]>>,
                               <<"_has_basic_dimensions", TRUE>> >>
    ELSE call.names

AssignCalls == {"setattr", "update", "set_basic_dimensions"}

\* the call assigns False to the freeze flag
ResetsFlag(call) ==
    \E i \in DOMAIN Assignments(call) :
        Assignments(call)[i][1] = FreezeFlag /\ ~Assignments(call)[i][2]

\* the value the call's last assignment to name gives it
LastAssigned(call, name) ==
    LET as == Assignments(call)
        I == {i \in DOMAIN as : as[i][1] = name}
    IN  as[CHOOSE i \in I : \A j \in I : j <= i][2]

HasBasic(d) == d["_has_basic_dimensions"]

\* the call made by this step is one of ops on an existing record
Calls(ops) == rec # None /\ rec' # None /\ lastCall'.op \in ops

\* before freeze, an assignment (directly, via update or via
\* set_basic_dimensions with three numbers) succeeds, whether or not the basic
\* dimensions are set
AssignsBeforeFreeze ==
    (Calls(AssignCalls) /\ ~IsFrozen(rec[1])
        /\ (lastCall'.op = "set_basic_dimensions" => Len(lastCall'.basic) = 3))
    => /\ lastCall'.exc = "none"
       /\ \A i \in DOMAIN Assignments(lastCall') :
              LET name == Assignments(lastCall')[i][1]
              IN  rec'[1][name] = LastAssigned(lastCall', name)

\* C11 as stated: after freeze, a call that assigns any attribute the record
\* held at freeze time raises the immutability error and leaves the attribute
\* as it was; before freeze the assignment succeeds.
C11_Original ==
    [][ /\ (Calls(AssignCalls) /\ IsFrozen(rec[1]))
           => \A i \in DOMAIN Assignments(lastCall') :
                  LET name == Assignments(lastCall')[i][1]
                  IN  name \in DOMAIN rec[1]
                      => /\ lastCall'.exc = "AttributeError"
                         /\ rec'[1][name] = rec[1][name]
        /\ AssignsBeforeFreeze ]_vars

\* C11 (amended): after freeze, a call that assigns an attribute the record
\* holds, other than the freeze flag _freeze_existing_attributes, and that
\* does not assign False to that flag, raises the immutability error and
\* leaves every such attribute as it was; before freeze the assignment
\* succeeds, before and after the basic dimensions are set.
C11_FrozenAssignRaises ==
    [][ /\ (Calls(AssignCalls) /\ IsFrozen(rec[1]) /\ ~ResetsFlag(lastCall'))
           => \A i \in DOMAIN Assignments(lastCall') :
                  LET name == Assignments(lastCall')[i][1]
                  IN  (name \in DOMAIN rec[1] /\ name # FreezeFlag)
                      => /\ lastCall'.exc = "AttributeError"
                         /\ \A n \in (DOMAIN rec[1]) \ {FreezeFlag} :
                                rec'[1][n] = rec[1][n]
        /\ AssignsBeforeFreeze ]_vars

\* a frozen record refused set_basic_dimensions after the call had added the
\* new attribute b
C11_Witness ==
    /\ rec # None
    /\ IsFrozen(rec[1])
    /\ lastCall.op = "set_basic_dimensions"
    /\ lastCall.exc = "AttributeError"
    /\ lastCall.names = << <<"b", 1>>, <<"a", 2>> >>
    /\ rec[1]["a"] = 1
    /\ rec[1]["b"] = 1

AllCalls == AssignCalls \cup {"freeze"}

\* C12 as stated: once frozen, after any further operation the record is
\* still frozen and every attribute it held keeps its value.
C12_Original ==
    [][ (Calls(AllCalls) /\ IsFrozen(rec[1]))
        => /\ IsFrozen(rec'[1])
           /\ \A n \in DOMAIN rec[1] : rec'[1][n] = rec[1][n] ]_vars

\* C12 (amended): once frozen, after any further operation that does not
\* assign False to the freeze flag, the record is still frozen and every
\* attribute it held keeps its value.
C12_FrozenTerminal ==
    [][ (Calls(AllCalls) /\ IsFrozen(rec[1]) /\ ~ResetsFlag(lastCall'))
        => /\ IsFrozen(rec'[1])
           /\ \A n \in DOMAIN rec[1] : rec'[1][n] = rec[1][n] ]_vars

\* a record frozen by its constructor, frozen again, has taken a new attribute
C12_Witness ==
    /\ rec # None
    /\ IsFrozen(rec[1])
    /\ "_freeze" \notin DOMAIN rec[1]
    /\ "b" \in DOMAIN rec[1]
    /\ lastCall.op = "freeze"
    /\ lastCall.exc = "none"

\* C13: freeze on a record without basic dimensions raises the precondition
\* error and changes nothing; on the unfrozen record every assignment still
\* succeeds, set_basic_dimensions with three numbers sets the dimensions and
\* the freeze that follows succeeds.
C13_FreezeNeedsDimensions ==
    [][ /\ (Calls({"freeze"}) /\ ~HasBasic(rec[1]))
           => /\ lastCall'.exc = "ValueError"
              /\ rec' = rec
        /\ (lastCall.op = "freeze" /\ lastCall.exc = "ValueError" /\ rec # None)
           => /\ AssignsBeforeFreeze
              /\ (Calls({"set_basic_dimensions"}) /\ ~IsFrozen(rec[1])
                     /\ Len(lastCall'.basic) = 3)
                 => HasBasic(rec'[1])
        /\ (Calls({"freeze"}) /\ HasBasic(rec[1]))
           => /\ lastCall'.exc = "none"
              /\ IsFrozen(rec'[1]) ]_vars

\* freeze has just failed on an unfrozen record that holds an extra attribute
\* and no basic dimensions
C13_Witness ==
    /\ rec # None
    /\ lastCall.op = "freeze"
    /\ lastCall.exc = "ValueError"
    /\ ~IsFrozen(rec[1])
    /\ ~HasBasic(rec[1])
    /\ "a" \in DOMAIN rec[1]

\* C14: BasicDimensionData() without arguments succeeds and gives an unfrozen
\* record without basic dimensions; on such a record extra attributes can be
\* set and set again, set_basic_dimensions gives it its dimensions and leaves
\* it unfrozen, and freeze then freezes it.
C14_TwoPhaseConstruction ==
    /\ []((lastCall.op = "init" /\ lastCall.basic = None
              /\ lastCall.freeze = DefaultFreeze /\ lastCall.names = <<>>)
          => /\ lastCall.exc = "none"
             /\ rec # None
             /\ ~IsFrozen(rec[1])
             /\ ~HasBasic(rec[1]))
    /\ [][ /\ AssignsBeforeFreeze
           /\ (Calls({"set_basic_dimensions"}) /\ ~IsFrozen(rec[1])
                  /\ ~HasBasic(rec[1]) /\ Len(lastCall'.basic) = 3)
              => (HasBasic(rec'[1]) /\ ~IsFrozen(rec'[1]))
           /\ (Calls({"freeze"}) /\ HasBasic(rec[1]))
              => IsFrozen(rec'[1]) ]_vars

(***************************************************************************)
(* Dimension sets: claim C15                                               *)
(***************************************************************************)
\* C15: subscripting a constructed DimensionData with any part type either
\* raises the not-found error naming that part type or returns a record that
\* has its basic dimensions and is frozen, also for a part type that was only
\* named in part_type_attributes.
C15_SubscriptFrozenOrMissing ==
    lastCall.op = "getitem"
    => \/ /\ lastCall.result.exc = "KeyError"
          /\ lastCall.result.part_type = lastCall.part_type
       \/ /\ lastCall.result.exc = "none"
          /\ HasBasic(lastCall.result.value)
          /\ IsFrozen(lastCall.result.value)

(***************************************************************************)
(* assemble: claims C16 to C19                                             *)
(***************************************************************************)
\* of the last assemble call: the assembler's resolved part map, its combined
\* metadata map, its builder's cache and the part identifiers asked for
CallPartMap == assemblers[ainst[lastCall.inst].cls].resolved_part_map
CallMetadataMap == _get_resolved_metadata_map(assemblers, ainst[lastCall.inst].cls)
CallCache == CacheOf(ainst[lastCall.inst].builder)
Requested == IF lastCall.parts = None THEN DOMAIN CallPartMap ELSE lastCall.parts[1]

\* the parts the pairs of the result were made for, normalized
ChildParts == {normalize_item(lastCall.children[i].part) : i \in DOMAIN lastCall.children}

\* C16: assemble() without parts returns one pair for every key of the
\* resolved part map and no other pair: as many pairs as keys, each key once,
\* each with the cached solid of the part type the key maps to and with the
\* metadata entry of the key.
C16_AssembleAllParts ==
    (lastCall.op = "assemble" /\ lastCall.parts = None)
    => /\ lastCall.exc = None
       /\ Len(lastCall.children) = Cardinality(DOMAIN CallPartMap)
       /\ {lastCall.children[i].part : i \in DOMAIN lastCall.children} = DOMAIN CallPartMap
       /\ \A i \in DOMAIN lastCall.children :
              LET child == lastCall.children[i]
              IN  /\ child.part_type = CallPartMap[child.part]
                  /\ child.solid = CallCache[child.part_type]
                  /\ child.part \in DOMAIN CallMetadataMap
                     => child.metadata.entry = Some(CallMetadataMap[child.part])

\* assemble() returned three pairs, two of them with the same solid
C16_Witness ==
    /\ lastCall.op = "assemble"
    /\ lastCall.parts = None
    /\ Len(lastCall.children) = 3
    /\ \E i, j \in DOMAIN lastCall.children :
           /\ i # j
           /\ lastCall.children[i].solid = lastCall.children[j].solid

\* C17: assemble(parts) with valid part identifiers returns one pair for every
\* distinct normalized identifier given and no other pair; none when the
\* collection is empty.
C17_AssembleGivenParts ==
    (lastCall.op = "assemble" /\ lastCall.parts # None
        /\ \A p \in lastCall.parts[1] : ND_contains(CallPartMap, p))
    => /\ lastCall.exc = None
       /\ ChildParts = {normalize_item(p) : p \in lastCall.parts[1]}
       /\ Len(lastCall.children) = Cardinality(ChildParts)

\* C18 as stated: assemble raises an error naming the part when a requested
\* key of the resolved part map has no entry in the combined metadata map,
\* and no pair is returned for a part without metadata.
C18_Original ==
    lastCall.op = "assemble"
    => /\ \A p \in Requested :
              (ND_contains(CallPartMap, p) /\ ~ND_contains(CallMetadataMap, p))
              => /\ lastCall.exc # None
                 /\ lastCall.exc[1].key \in {Some(p), Some(normalize_item(p))}
       /\ \A i \in DOMAIN lastCall.children :
              ND_contains(CallMetadataMap, lastCall.children[i].part)

\* C18 (amended): assemble does not fail for a requested key of the resolved
\* part map that has no entry in the combined metadata map; it returns for
\* that part a pair whose metadata is the defaults alone: the name made from
\* the identifier as given (title case, underscores to spaces) and the
\* assembler's colour.
C18_MissingMetadataDefaults ==
    lastCall.op = "assemble"
    => /\ (\A p \in Requested : ND_contains(CallPartMap, p)) => lastCall.exc = None
       /\ \A i \in DOMAIN lastCall.children :
              LET child == lastCall.children[i]
              IN  ~ND_contains(CallMetadataMap, child.part)
                  => /\ child.metadata.entry = None
                     /\ child.metadata.defaults =
                            Some([name |-> ReplaceUnderscores(Title(child.part)),
                                  color |-> SelfColor])

\* assemble(["P_q"]) on a Box, which declares no metadata for p_q, returned
\* the pair named "P Q"
C18_Witness ==
    /\ lastCall.op = "assemble"
    /\ lastCall.parts = Some({<<"P", "_", "q">>})
    /\ lastCall.exc = None
    /\ Len(lastCall.children) = 1
    /\ lastCall.children[1].metadata.entry = None
    /\ lastCall.children[1].metadata.defaults =
           Some([name |-> <<"P", " ", "Q">>, color |-> "burlywood"])

\* C19: assemble with a part identifier that is not a key of the resolved
\* part map raises a not-found error that names that identifier and the set
\* of valid part identifiers, and returns no pair.
C19_UnknownPartNamed ==
    (lastCall.op = "assemble" /\ lastCall.parts # None
        /\ \E p \in lastCall.parts[1] : ~ND_contains(CallPartMap, p))
    => /\ lastCall.exc # None
       /\ lastCall.exc[1].kind \in {"KeyError", "ValueError"}
       /\ \E p \in lastCall.parts[1] :
              /\ ~ND_contains(CallPartMap, p)
              /\ lastCall.exc[1].key \in {Some(p), Some(normalize_item(p))}
       /\ lastCall.exc[1].available = Some(DOMAIN CallPartMap)
       /\ lastCall.children = <<>>

(***************************************************************************)
(* NormalizedDict: claim C20                                               *)
(***************************************************************************)
\* the call of this step writes keys that are stored, in normalized form,
\* already
WritesPresentKeys ==
    /\ lastCall'.op \in {"setitem", "update"}
    /\ \A i \in DOMAIN lastCall'.items : ND_contains(nd, lastCall'.items[i][1])

\* C20: after any sequence of construction, set, update, setdefault, delete,
\* pop, d | other and d |= other, every stored key is trimmed and lower-cased,
\* so no two stored keys normalize identically; a write under a key whose
\* normalized form is stored replaces that entry and adds none.
C20_KeysNormalized ==
    /\ [](\A k \in DOMAIN nd : normalize_item(k) = k)
    /\ [](\A j, k \in DOMAIN nd : normalize_item(j) = normalize_item(k) => j = k)
    /\ [][ WritesPresentKeys
           => /\ DOMAIN nd' = DOMAIN nd
              /\ \A i \in DOMAIN lastCall'.items :
                     (\A j \in (i + 1)..Len(lastCall'.items) :
                          normalize_item(lastCall'.items[j][1])
                              # normalize_item(lastCall'.items[i][1]))
                     => nd'[normalize_item(lastCall'.items[i][1])]
                            = lastCall'.items[i][2] ]_vars

(***************************************************************************)
(* NormalizedDict lookups: claims C21 and C22                              *)
(***************************************************************************)
\* the strings of at most n characters over the alphabet
StringsUpTo(alphabet, n) == UNION {[1..m -> alphabet] : m \in 0..n}

\* string keys a caller looks up
LookupKeys == StringsUpTo({"a", "A", "b", " "}, 3)

\* C21: normalize_item is idempotent on every string key, and in every
\* reachable state of a NormalizedDict get, has, delete and pop with a string
\* key k give the same result and the same resulting map as with
\* normalize_item(k).
C21_LookupNormalized ==
    \A k \in LookupKeys :
        /\ normalize_item(normalize_item(k)) = normalize_item(k)
        /\ NormalizedDict_get(nd, k, None) = NormalizedDict_get(nd, normalize_item(k), None)
        /\ NormalizedDict__contains__(nd, k)
               = NormalizedDict__contains__(nd, normalize_item(k))
        /\ ND_delitem(nd, k) = ND_delitem(nd, normalize_item(k))
        /\ \A default \in {None, Some(2)} :
               ND_pop(nd, k, default) = ND_pop(nd, normalize_item(k), default)

\* pop("B ") has removed the entry stored under "b" from a map that still
\* holds "a"
C21_Witness ==
    /\ lastCall.op = "pop"
    /\ lastCall.items[1][1] = <<"B", " ">>
    /\ lastCall.exc = "none"
    /\ DOMAIN nd = {<<"a">>}

\* C22: a set with a key that is not a string raises TypeError and leaves
\* the map as it was, the key not being in it afterwards; has and get with
\* a key that is not a string never raise and report that nothing was found.
C22_NonStringKeys ==
    [][ \A key \in NonStringKeys :
            (lastCall'.op \in {"setitem", "contains", "get"}
                /\ lastCall'.items[1][1] = key)
            => IF lastCall'.op = "setitem"
               THEN /\ lastCall'.exc = "TypeError"
                    /\ nd' = nd
                    /\ key \notin DOMAIN nd'
               ELSE /\ lastCall'.exc = "none"
                    /\ ~lastCall'.found ]_vars

(***************************************************************************)
(* set_basic_dimensions: claim C23                                         *)
(***************************************************************************)
\* the argument is a sequence of exactly three numbers
ThreeNumbers(arg) ==
    /\ arg.kind \in SequenceKinds
    /\ Len(arg.items) = 3
    /\ \A i \in DOMAIN arg.items : arg.items[i][1] = "int"

\* C23: set_basic_dimensions with an argument that is not a sequence of
\* exactly three numbers (wrong length, not a sequence, or three elements one
\* of which is not a number) raises TypeError, and the record does not get
\* its basic dimensions from the call.
C23_ThreeNumbersOnly ==
    [][ (rec # None /\ rec' # None /\ lastCall'.op = "set_basic_dimensions_arg"
            /\ ~ThreeNumbers(lastCall'.arg))
        => /\ lastCall'.exc = "TypeError"
           /\ HasBasic(rec'[1]) => HasBasic(rec[1]) ]_vars

(***************************************************************************)
(* C24: the order of the steps of DimensionData construction               *)
(***************************************************************************)
\* this step is made by the constructor call in flight
CtorStep(from, to) ==
    /\ lastCall.op = "ctor" /\ lastCall.pc = from
    /\ lastCall'.op = "ctor" /\ lastCall'.pc = to

\* neither the top-level record d nor any per-part-type record is frozen
NothingFrozen(d) ==
    /\ ~IsFrozen(d)
    /\ \A pt \in DOMAIN d[PartsAttr] : ~IsFrozen(d[PartsAttr][pt])

\* every entry of part_type_attributes is on the record of its part type
Seeded(d, part_type_attributes) ==
    \A i \in DOMAIN OrEmpty(part_type_attributes) :
        \A j \in DOMAIN part_type_attributes[1][i][3] :
            LET pt == normalize_item(part_type_attributes[1][i][3][j][1])
            IN  /\ pt \in DOMAIN d[PartsAttr]
                /\ part_type_attributes[1][i][1] \in DOMAIN d[PartsAttr][pt]

\* the basic dimensions and every attribute of the constructor body are on d
Populated(d, call) ==
    /\ HasBasic(d)
    /\ <<d["x_len"], d["y_len"], d["z_len"]>> = call.basic
    /\ \A i \in DOMAIN call.before : call.before[i][1] \in DOMAIN d
    /\ \A i \in DOMAIN call.after : call.after[i][1] \in DOMAIN d

\* the hook runs on a populated, seeded instance on which nothing is frozen
HookOrder ==
    CtorStep("hook", "add") =>
        /\ Populated(dimset[1], lastCall)
        /\ Seeded(dimset[1], lastCall.pta)
        /\ NothingFrozen(dimset[1])

\* a record returned by the hook is dimensioned and frozen, the top-level
\* record still is not
PartOrder ==
    CtorStep("add", "add") =>
        LET pt == Head(lastCall.keys)
            r == dimset'[1][PartsAttr][pt]
        IN  /\ HasBasic(r)
            /\ <<r["x_len"], r["y_len"], r["z_len"]>> = ND_init(lastCall.ptd)[pt].seq
            /\ IsFrozen(r)
            /\ ~IsFrozen(dimset'[1])

\* every record of the hook is frozen before the last step
PartsFrozenFirst ==
    CtorStep("add", "done") =>
        /\ ~IsFrozen(dimset[1])
        /\ \A pt \in DOMAIN ND_init(lastCall.ptd) : IsFrozen(dimset[1][PartsAttr][pt])

\* assigning an attribute the instance has
Reassign ==
    /\ CtorStep("done", "done")
    /\ lastCall'.assign[1][1] \in DOMAIN dimset[1]

\* C24 as stated: the hook runs on a populated, seeded instance with nothing
\* frozen; each record it returns is dimensioned and then frozen; the
\* top-level record is frozen last, and every attribute the instance has when
\* construction returns is immutable
C24_ConstructionOrder ==
    [][ /\ HookOrder
        /\ PartOrder
        /\ PartsFrozenFirst
        /\ CtorStep("add", "done") => IsFrozen(dimset'[1])
        /\ Reassign => lastCall'.exc = "AttributeError" /\ dimset' = dimset ]_vars

\* C24 amended: the top-level record is frozen last when freeze is true and
\* left unfrozen when it is false; while the instance is frozen, every
\* attribute it has except the freeze flag is immutable
C24_ConstructionOrderIfFreeze ==
    [][ /\ HookOrder
        /\ PartOrder
        /\ PartsFrozenFirst
        /\ CtorStep("add", "done") => IsFrozen(dimset'[1]) = lastCall.freeze
        /\ (Reassign /\ IsFrozen(dimset[1]) /\ lastCall'.assign[1][1] # FreezeFlag)
               => lastCall'.exc = "AttributeError" /\ dimset' = dimset ]_vars

\* a frozen instance, built with a constructor body and a hook that returned
\* two part types over seeded records, has refused a reassignment
C24_Witness ==
    /\ lastCall.op = "ctor" /\ lastCall.pc = "done"
    /\ lastCall.freeze /\ lastCall.after # <<>> /\ lastCall.before # <<>>
    /\ lastCall.pta # None /\ Len(lastCall.ptd) = 2
    /\ lastCall.assign = Some(<<"special", 2>>)
    /\ lastCall.exc = "AttributeError"
    /\ IsFrozen(dimset[1])

(***************************************************************************)
(* C25: assemble shares one solid per part type                            *)
(***************************************************************************)
\* the part types for which cached calls on builder b returned a solid since
\* the cache of b was last cleared
CachedTypes(h, b) == {x[1] : x \in h[b].cached}

\* C25: in the children of one assemble call the parts of one part type carry
\* the same solid, which is the one earlier assemble calls since the last
\* clear_cache got for that part type; an assemble call runs construction
\* operations at most once for each part type not built since the last
\* clear_cache, and none for the others
C25_SolidSharing ==
    [][ lastCall'.op = "assemble" =>
            LET b == ainst[lastCall'.inst].builder
                ch == lastCall'.children
            IN  /\ \A i, j \in DOMAIN ch :
                       ch[i].part_type = ch[j].part_type => ch[i].solid = ch[j].solid
                /\ \A i \in DOMAIN ch : \A x \in hist[b].cached :
                       x[1] = ch[i].part_type => x[2] = ch[i].solid
                /\ \A x, y \in hist'[b].cached : x[1] = y[1] => x[2] = y[2]
                /\ nextSolid' - nextSolid
                       <= Cardinality(CachedTypes(hist', b) \ CachedTypes(hist, b)) ]_vars

\* after a clear_cache, an assemble call of three parts, two of them of one
\* part type, returned without building anything in its last step
C25_Witness ==
    /\ lastCall.op = "assemble" /\ lastCall.exc = None
    /\ Len(lastCall.children) = 3
    /\ \E i, j \in DOMAIN lastCall.children :
           /\ i # j
           /\ lastCall.children[i].part_type = lastCall.children[j].part_type
           /\ lastCall.children[i].solid = lastCall.children[j].solid
    /\ hist[ainst[lastCall.inst].builder].before # {}
    /\ nextSolid = MaxBuilds

(***************************************************************************)
(* C26: build_part with cached_solid=False                                 *)
(***************************************************************************)
\* the solids held by the caches of all builder instances
CachedSolids == UNION { {heap[c][k] : k \in DOMAIN heap[c]} : c \in DOMAIN heap }

\* C26: an uncached build_part of a registered part type runs the
\* construction operation and returns its new result, which is in no cache
\* and is what the call returns on an empty cache; the call leaves every
\* cache, and so the answer of every later cached call, as it was
C26_UncachedBuild ==
    [][ (lastCall'.op = "build_part" /\ ~lastCall'.cached_solid) =>
            LET i == lastCall'.inst
                pt == lastCall'.part_type
            IN  /\ ND_contains(BuilderMapOf(i), pt) =>
                       /\ lastCall'.built
                       /\ lastCall'.result.kind = "ok"
                       /\ nextSolid' = nextSolid + 1
                       /\ lastCall'.result.obj = nextSolid'
                       /\ lastCall'.result.obj \notin CachedSolids'
                /\ lastCall'.result
                       = build_part(BuilderMapOf(i), EmptyMap, pt, FALSE, nextSolid + 1).result
                /\ heap' = heap
                /\ hist' = hist
                /\ \A p \in RawPartTypes :
                       build_part(BuilderMapOf(i), heap'[binst[i].cache], p, TRUE, 0).result
                           = build_part(BuilderMapOf(i), CacheOf(i), p, TRUE, 0).result ]_vars

\* an uncached call for a part type whose solid is cached built a new solid
\* and left the cached one in place
C26_Witness ==
    /\ lastCall.op = "build_part" /\ ~lastCall.cached_solid
    /\ lastCall.part_type = <<" ", "A">>
    /\ lastCall.built
    /\ <<"a">> \in DOMAIN CacheOf(lastCall.inst)
    /\ CacheOf(lastCall.inst)[<<"a">>] # lastCall.result.obj
    /\ lastCall.result.obj = nextSolid

(***************************************************************************)
(* C27: merging an attribute that no class of the ancestry defines         *)
(***************************************************************************)
\* C27: the definition of a builder class whose body tags no construction
\* operation and none of whose ancestors has a registry fails, so no such
\* class is ever defined
C27_MissingAttributeFails ==
    \A c \in DOMAIN builders :
        (/\ builders[c].tags = <<>>
         /\ get_parent_items(BuilderMapAttrs(builders, builders[c].mro)) = None)
            => FALSE

(***************************************************************************)
(* C28: resolved registries and part maps are fixed once computed          *)
(***************************************************************************)
\* C28: no step - a further class definition, build_part, clear_cache,
\* assemble, or writing into the map the resolved_part_map accessor returned -
\* changes the registry or the resolved part map of a class that is defined
C28_RegistriesFixed ==
    [][ /\ \A c \in DOMAIN builders :
               /\ c \in DOMAIN builders'
               /\ builders'[c].builder_map = builders[c].builder_map
               /\ builders'[c].resolved_part_types = builders[c].resolved_part_types
        /\ \A c \in DOMAIN assemblers :
               /\ c \in DOMAIN assemblers'
               /\ assemblers'[c].resolved_part_map = assemblers[c].resolved_part_map
        /\ lastCall'.op = "mutate_part_map" =>
               lastCall'.read = assemblers'[ainst[lastCall'.inst].cls].resolved_part_map ]_vars

\* after a second builder class and a second assembler class were defined and
\* the instance had assembled, a new key was written into the map returned
\* by the accessor
C28_Witness ==
    /\ lastCall.op = "mutate_part_map"
    /\ <<"q">> \in DOMAIN lastCall.map
    /\ <<"q">> \notin DOMAIN assemblers[ainst[lastCall.inst].cls].resolved_part_map
    /\ Len(builders) = MaxBuilders
    /\ Len(assemblers) = MaxAssemblers
    /\ nextSolid > 0

(***************************************************************************)
(* C29: attributes are write-once on a frozen record                       *)
(***************************************************************************)
\* C29: on a frozen record, assigning a name the record does not hold
\* succeeds and gives it the value, and from the state reached assigning that
\* name again raises the immutability error and changes nothing; assigning a
\* name the record holds (other than the freeze flag) raises and changes
\* nothing
C29_WriteOnce ==
    [][ (Calls({"setattr"}) /\ IsFrozen(rec[1]) /\ lastCall'.names[1][1] # FreezeFlag) =>
            LET name == lastCall'.names[1][1]
                value == lastCall'.names[1][2]
            IN  IF name \notin DOMAIN rec[1]
                THEN /\ lastCall'.exc = "none"
                     /\ rec'[1] = MapMerge(rec[1], [k \in {name} |-> value])
                     /\ \A a \in AttrChoices :
                            a[1] = name =>
                                __setattr__(rec'[1], name, a[2])
                                    = Raise(rec'[1], "AttributeError")
                ELSE /\ lastCall'.exc = "AttributeError"
                     /\ rec' = rec ]_vars

\* a frozen record without the attribute b has taken b = 1
C29_Witness ==
    /\ rec # None
    /\ IsFrozen(rec[1])
    /\ lastCall.op = "setattr"
    /\ lastCall.names = << <<"b", 1>> >>
    /\ lastCall.exc = "none"
    /\ "b" \in DOMAIN rec[1]
    /\ "a" \notin DOMAIN rec[1]

(***************************************************************************)
(* C30: the setup attributes are removed from a defined assembler class    *)
(***************************************************************************)
\* hasattr(c, attr), and so hasattr(instance of c, attr), for a defined
\* assembler class c and a setup attribute
ClassHasAttr(c, attr) ==
    HasAttr(assemblers, assemblers[c].mro, assemblers[c].dict, attr)

\* C30: on a defined assembler class neither part_map nor BuilderClass can
\* be read, whatever its body and its ancestors declared; a class statement
\* whose body does not declare BuilderClass fails with TypeError, and every
\* defined class declared its own
C30_SetupAttributesRemoved ==
    /\ \A c \in DOMAIN assemblers : \A attr \in _setup_attributes :
           ~ClassHasAttr(c, attr)
    /\ \A c \in DOMAIN assemblers : "BuilderClass" \in assemblers[c].body
    /\ (lastDef.what = "assembler" /\ "BuilderClass" \notin lastDef.body)
           => lastDef.kind = "TypeError"

\* a class statement with a valid list of bases, whose parent declared
\* BuilderClass and part_map, failed because its body declares no BuilderClass
C30_Witness ==
    /\ lastDef.what = "assembler"
    /\ lastDef.kind = "TypeError"
    /\ lastDef.body = {"part_map"}
    /\ Len(lastDef.bases) = 1
    /\ lastDef.bases[1] \in DOMAIN assemblers
    /\ assemblers[lastDef.bases[1]].body = {"part_map", "BuilderClass"}
    /\ assemblers[lastDef.bases[1]].dict = {}

====
